---- MODULE Spec2Model ----
(***************************************************************************)
(* Task-set scheduler of codex-annex (src/src/taskset.rs) together with    *)
(* the parts of the hook registry (src/src/hooks_yaml.rs) and of the       *)
(* configuration manager (src/src/yaml_config.rs) it calls.                *)
(*                                                                         *)
(* TaskSetRunner::run is an async fn.  Its suspension points are the       *)
(* awaits on the three bridges and on HookRegistry::emit; every action     *)
(* below is the code between two suspension points.  The plan is an        *)
(* immutable value that run reads front to back: the number of sets is     *)
(* drawn in Init, a set is drawn when the loop of run reaches it, the      *)
(* number of steps of a task when run_one is entered and the variant of a  *)
(* step when the step loop reaches it.  set_id and task_id are the         *)
(* positions in the plan (the spec requires them to be unique).            *)
(*                                                                         *)
(* The specifications share the variables:                                 *)
(*   Spec        TaskSetRunner::run over a plan (taskset.rs);              *)
(*   HookSpec    concurrent calls of HookRegistry::emit (hooks_yaml.rs);   *)
(*   MergeSpec   the function merge on pairs of Config values;             *)
(*   ConfigSpec  ConfigManager: load, watcher reload, runtime overlay and  *)
(*               write_patch_file over the three layer directories;        *)
(*   CompactSpec Compactor: manual_compact, auto_compact and               *)
(*               should_autotrigger over a workspace (compact.rs);         *)
(*   TodoSpec    the TodoStore of todo.rs and of todo_yaml.rs under a      *)
(*               wall clock that can be set back;                          *)
(*   LogSpec     SessionLogWriter::append by one or more writers of the    *)
(*               same session, with the redactor (session_logs.rs);        *)
(*   LoadSpec    HookRegistry::load_from_dirs over hook directories whose  *)
(*               entries the filesystem yields in any order;               *)
(*   RegSpec     the trait-object HookRegistry of hooks.rs: register/emit; *)
(*   RunnerSpec  TaskRunner::run over one task with nested SubAgent steps  *)
(*               (task.rs);                                                *)
(*   WatchSpec   ConfigManager of yaml_config.rs with the reload of its    *)
(*               watcher thread beside a caller's apply_runtime_overlay;   *)
(*   LayeredSpec ConfigManager of layered_config.rs with the autocompact   *)
(*               builtin of slash.rs and pick_model.                       *)
(* Each one holds the components of the others at their idle value.        *)
(***************************************************************************)
EXTENDS Integers, Sequences, FiniteSets, TLC

\* ------------------------------------------------------------------ bounds
MaxSets == 2
MaxTasks == 2
MaxSteps == 2
MaxCalls == 3
MaxOps == 2
MaxChanged == 2
MaxKeep == 3
MaxWriters == 2
MaxAppends == 2
MaxTodoOps == 3
MaxClock == 3
MaxHooks == 3

SetIds == 1..MaxSets
TaskIds == 1..MaxTasks
CallIds == 1..MaxCalls

\* ------------------------------------------------------- yaml_config.rs
DefaultRecursionLimit == 3

None == "none"

ModelTarget(n, url) == [name |-> n, base_url |-> url]

\* ModelRole::key
RoleKey(role) ==
  CASE role = "Chat" -> "chat"
    [] role = "Title" -> "title"
    [] role = "SessionName" -> "session_name"
    [] role = "Compact" -> "compact"
    [] role = "MetaPrompt" -> "meta_prompt"
    [] role = "TaskStatus" -> "task_status"

\* The effective configurations the runner is started with.
Configs ==
  { [models |-> [default |-> ModelTarget("main", None),
                 overrides |-> [k \in {} |-> ModelTarget("", None)]],
     hooks |-> [recursion_limit |-> << >>]],
    [models |-> [default |-> ModelTarget("main", None),
                 overrides |-> [k \in {"task_status"} |-> ModelTarget("status", "http://status")]],
     hooks |-> [recursion_limit |-> <<1>>]] }

\* ConfigManager::pick_model with the snapshot c
pick_model_overrides_ignored(c, role) == c.models.default

pick_model(c, role) ==
  IF RoleKey(role) \in DOMAIN c.models.overrides
    THEN c.models.overrides[RoleKey(role)]
    ELSE c.models.default

\* Config::default().  Of the fields of Config the model keeps one or more of
\* every kind merge treats differently: a string that is absent when empty
\* (models.default.name), a map (models.overrides), an enum that is always
\* taken over (shell.approval), a flag (ui.status_bar, compact.auto_enable),
\* an Option (history.persist, hooks.recursion_limit; << >> is None, <<v>> is
\* Some(v)), a vector (hooks.dirs) and the numeric thresholds of compact.
DefaultConfig ==
  [models |-> [default |-> ModelTarget("", None),
               overrides |-> [k \in {} |-> ModelTarget("", None)]],
   shell |-> [approval |-> "on_request"],
   ui |-> [status_bar |-> FALSE],
   history |-> [persist |-> << >>],
   compact |-> [auto_enable |-> TRUE, auto_min_interval_secs |-> 120,
                max_context_chars |-> 40000, max_files |-> 24],
   hooks |-> [recursion_limit |-> << >>, dirs |-> << >>]]

\* The pieces of merge (yaml_config.rs 281-323), dst being a's field and src b's
\* `if b.x.is_some() { a.x = b.x.clone(); }`
ov_option(dst, src) == IF src # << >> THEN src ELSE dst

ov_vec_append(dst, src) == dst \o src

\* `if !b.x.is_empty() { a.x = b.x.clone(); }`
ov_vec(dst, src) == IF src # << >> THEN src ELSE dst

ov_threshold_keep(dst, src) == IF dst # 0 THEN dst ELSE src

\* `if b.x != 0 { a.x = b.x; }`
ov_threshold(dst, src) == IF src # 0 THEN src ELSE dst

ov_map_lower_wins(dst, src) ==
  [k \in (DOMAIN dst) \cup (DOMAIN src) |-> IF k \in DOMAIN dst THEN dst[k] ELSE src[k]]

\* `for (k,v) in &b.x { a.x.insert(k.clone(), v.clone()); }`
ov_map(dst, src) ==
  [k \in (DOMAIN dst) \cup (DOMAIN src) |-> IF k \in DOMAIN src THEN src[k] ELSE dst[k]]

\* merge(a, b): a after the call
merge(a, b) ==
  [models |-> [default |-> IF b.models.default.name # "" THEN b.models.default
                                                        ELSE a.models.default,
               overrides |-> ov_map(a.models.overrides, b.models.overrides)],
   shell |-> [approval |-> b.shell.approval],
   ui |-> [status_bar |-> a.ui.status_bar \/ b.ui.status_bar],
   history |-> [persist |-> ov_option(a.history.persist, b.history.persist)],
   compact |-> [auto_enable |-> IF b.compact.auto_enable THEN TRUE ELSE a.compact.auto_enable,
                auto_min_interval_secs |-> ov_threshold(a.compact.auto_min_interval_secs,
                                                        b.compact.auto_min_interval_secs),
                max_context_chars |-> ov_threshold(a.compact.max_context_chars,
                                                   b.compact.max_context_chars),
                max_files |-> ov_threshold(a.compact.max_files, b.compact.max_files)],
   hooks |-> [recursion_limit |-> ov_option(a.hooks.recursion_limit, b.hooks.recursion_limit),
              dirs |-> ov_vec(a.hooks.dirs, b.hooks.dirs)]]

\* A YAML document is the map from the settings it names to their values;
\* serde fills every setting it does not name from Default (`#[serde(default)]`
\* on Config and on each of its structs, CompactConfig with its own Default).
Setting(doc, key, dflt) == IF key \in DOMAIN doc THEN doc[key] ELSE dflt

\* serde_yml::from_str::<Config>
from_yaml(doc) ==
  LET d == DefaultConfig IN
  [models |-> [default |-> ModelTarget(Setting(doc, "models.default.name", d.models.default.name),
                                       None),
               overrides |-> Setting(doc, "models.overrides", d.models.overrides)],
   shell |-> [approval |-> Setting(doc, "shell.approval", d.shell.approval)],
   ui |-> [status_bar |-> Setting(doc, "ui.status_bar", d.ui.status_bar)],
   history |-> [persist |-> Setting(doc, "history.persist", d.history.persist)],
   compact |-> [auto_enable |-> Setting(doc, "compact.auto_enable", d.compact.auto_enable),
                auto_min_interval_secs |-> Setting(doc, "compact.auto_min_interval_secs",
                                                   d.compact.auto_min_interval_secs),
                max_context_chars |-> Setting(doc, "compact.max_context_chars",
                                              d.compact.max_context_chars),
                max_files |-> Setting(doc, "compact.max_files", d.compact.max_files)],
   hooks |-> [recursion_limit |-> Setting(doc, "hooks.recursion_limit", d.hooks.recursion_limit),
              dirs |-> Setting(doc, "hooks.dirs", d.hooks.dirs)]]

\* serde_yml::to_string(&Config): every field is written
to_yaml(c) ==
  [key \in {"models.default.name", "models.overrides", "shell.approval", "ui.status_bar",
             "history.persist", "compact.auto_enable", "compact.auto_min_interval_secs",
             "compact.max_context_chars", "compact.max_files", "hooks.recursion_limit",
             "hooks.dirs"} |->
     CASE key = "models.default.name" -> c.models.default.name
       [] key = "models.overrides" -> c.models.overrides
       [] key = "shell.approval" -> c.shell.approval
       [] key = "ui.status_bar" -> c.ui.status_bar
       [] key = "history.persist" -> c.history.persist
       [] key = "compact.auto_enable" -> c.compact.auto_enable
       [] key = "compact.auto_min_interval_secs" -> c.compact.auto_min_interval_secs
       [] key = "compact.max_context_chars" -> c.compact.max_context_chars
       [] key = "compact.max_files" -> c.compact.max_files
       [] key = "hooks.recursion_limit" -> c.hooks.recursion_limit
       [] key = "hooks.dirs" -> c.hooks.dirs]

\* What a path of a scope directory holds: no file, a YAML document, or text
\* that serde_yml cannot parse
NoFile == [kind |-> "absent", doc |-> << >>]
Yaml(doc) == [kind |-> "yaml", doc |-> doc]
Garbage == [kind |-> "garbage", doc |-> << >>]

\* The *.yaml paths of a scope directory, as files.sort() orders them
FileNames == <<"10.yaml", "99-runtime.yaml">>

Scopes == {"System", "User", "Workspace", "Runtime"}

runtime_as_workspace(scope) ==
  CASE scope = "System" -> "system_dir"
    [] scope = "User" -> "user_dir"
    [] OTHER -> "workspace_dir"

\* write_patch_file, the match on scope (yaml_config.rs 258-263): the directory
\* of the scope, None for Runtime (bail!)
scope_dir(scope) ==
  CASE scope = "System" -> "system_dir"
    [] scope = "User" -> "user_dir"
    [] scope = "Workspace" -> "workspace_dir"
    [] scope = "Runtime" -> None

Dirs == {"system_dir", "user_dir", "workspace_dir"}

\* read_yaml_dir (yaml_config.rs 187-203) from the k-th path on: files that
\* cannot be read or parsed are passed over
RECURSIVE read_yaml_from(_, _, _)
read_yaml_from(dir, k, acc) ==
  IF k > Len(FileNames) THEN acc
  ELSE LET f == dir[FileNames[k]] IN
    read_yaml_from(dir, k + 1, IF f.kind = "yaml" THEN merge(acc, from_yaml(f.doc)) ELSE acc)

read_yaml_dir(dir) == read_yaml_from(dir, 1, DefaultConfig)

\* reload_all and the watcher callback (yaml_config.rs 205-216, 225-234): the
\* snapshot they store in inner
reload_all(fs, rt) ==
  merge(merge(merge(merge(DefaultConfig, read_yaml_dir(fs["system_dir"])),
                    read_yaml_dir(fs["user_dir"])),
              read_yaml_dir(fs["workspace_dir"])),
        rt)

\* --------------------------------------------------------- hooks_yaml.rs
\* HookAction::Exec carries the result of its child process: "success",
\* "fail" (non-zero exit) or "spawn_error" (Command::status returned Err).
ExecAction(res) == [action |-> "exec", exit |-> res]
PromptAction == [action |-> "prompt", exit |-> "success"]

HookRule(n, w, a, d, e) ==
  [name |-> n, when |-> w, actions |-> a, deny_on_fail |-> d, enabled |-> e]

\* The rule lists a registry is loaded with.
RuleSets ==
  { << >>,
    << HookRule("audit", {"task_start", "post_exec", "task_end"},
                << ExecAction("success") >>, FALSE, TRUE),
       HookRule("gate", {"pre_exec", "pre_mcp", "pre_tool_use"},
                << ExecAction("fail") >>, TRUE, TRUE) >> }

\* rule_matches, on the snake-case tag of the event
rule_matches(rule, ty) == ty \in rule.when

\* The result of emit: Ok(Continue), Ok(Deny{reason}) or Err, together with
\* the number of child processes whose exit emit_inner has awaited
Continue(n) == [decision |-> "Continue", reason |-> "", children |-> n]
Deny(r, n) == [decision |-> "Deny", reason |-> r, children |-> n]
EmitErr(n) == [decision |-> "Err", reason |-> "", children |-> n]

\* The inner loop of emit_inner over the actions of one rule, from action k,
\* after n children: the result that ends emit_inner, or Continue to go on
\* with the next rule.
RECURSIVE run_actions(_, _, _)
run_actions(r, k, n) ==
  IF k > Len(r.actions) THEN Continue(n)
  ELSE LET a == r.actions[k] IN
    IF a.action = "exec" /\ a.exit = "spawn_error" THEN EmitErr(n)
    ELSE IF a.action = "exec" /\ a.exit = "fail" /\ r.deny_on_fail
      THEN Deny(<<"hook", r.name, "exec failed">>, n + 1)
    ELSE run_actions(r, k + 1, IF a.action = "exec" THEN n + 1 ELSE n)

\* HookRegistry::emit_inner over the rules from position k, after n children
RECURSIVE emit_inner_from(_, _, _, _)
emit_inner_from(rs, ty, k, n) ==
  IF k > Len(rs) THEN Continue(n)
  ELSE LET r == rs[k] IN
    IF ~r.enabled \/ ~rule_matches(r, ty) THEN emit_inner_from(rs, ty, k + 1, n)
    ELSE LET d == run_actions(r, 1, n) IN
      IF d.decision # "Continue" THEN d ELSE emit_inner_from(rs, ty, k + 1, d.children)

emit_inner(rs, ty) == emit_inner_from(rs, ty, 1, 0)

\* ------------------------------------------------------------ taskset.rs
StepKinds == {"chat", "exec", "mcp_call", "git"}
Modes == {"sequential", "parallel"}
ExitCodes == {0, 1}

\* TaskSetSpec.title of the set at position s of the plan
PlanTitle(s) == <<"title", s>>

\* format!("Task set '{}' finished. Summarize status ...", set.title)
SummaryPrompt(title) ==
  <<"Task set '", title,
    "' finished. Summarize status of each task and propose refinements for the next set.">>

\* UiEvent
TaskSetStartEv(s) == [type |-> "TaskSetStart", set |-> s, task |-> 0, ok |-> TRUE]
TaskStartEv(s, t) == [type |-> "TaskStart", set |-> s, task |-> t, ok |-> TRUE]
TaskProgressEv(s, t) == [type |-> "TaskProgress", set |-> s, task |-> t, ok |-> TRUE]
TaskEndEv(s, t, ok) == [type |-> "TaskEnd", set |-> s, task |-> t, ok |-> ok]
TaskSetEndEv(s, ok) == [type |-> "TaskSetEnd", set |-> s, task |-> 0, ok |-> ok]

VARIABLES
  cfg,      \* TaskSetRunner.cfg: the effective Config snapshot
  rules,    \* HookRegistry.rules
  depth,    \* HookRegistry.depth
  nSets,    \* plan.sets.len()
  runPc,    \* position of run: "loop", "set", "summary", "ok", "err"
  i,        \* number of sets the loop of run has entered
  set,      \* the set run is executing: mode and number of tasks
  tasks,    \* the run_one future of every task of that set: its position, its
            \* locals, what the bridges and the hook registry have seen of its
            \* current step (log), and what went wrong in it (nonzero: a
            \* step exited non-zero; failed: the bridge that returned Err;
            \* unrun: steps were left untaken)
  chat,     \* the arguments of the summary call run is awaiting
  hs,       \* per set: the summary calls made and the result of the call
  signal,   \* the user's answer to the confirmation that is pending
  sent,     \* the UiEvents sent on ui_tx by the last step
  ui        \* what the receiver of ui_tx has seen: the TaskSetStart and
            \* TaskSetEnd events per set, and for the set of the latest
            \* TaskSetStart (cur) its TaskSetEnd.ok and the events per task

VARIABLES
  calls     \* the calls of HookRegistry::emit in flight, per caller: position
            \* in emit_inner (rule r, action a), the actions attempted so far
            \* (ran), the children awaited (n) and the result once returned

VARIABLES
  files,    \* the *.yaml paths of the three scope directories
  overlay,  \* ConfigManager.runtime_overlay
  inner,    \* ConfigManager.inner: the snapshot get() returns
  dirty,    \* a file event the watcher has not handled yet
  rtKeys,   \* the settings the callers of apply_runtime_overlay have set
  last,     \* the last call made on the manager and its result
  nops      \* number of calls and file edits so far

VARIABLES
  lower,    \* merge: a before the call
  higher,   \* merge: b
  out       \* merge: a after the call, and which call it was

VARIABLES
  workspace,   \* the files under Compactor.workspace_root, per path: whether
               \* the walk yields it as a candidate, and what git, the to-do
               \* store, the audit log and its metadata say about it
  compactCfg,  \* cfg.get().compact as the Compactor reads it
  cres         \* the last call made on the Compactor and what it returned

VARIABLES
  items,    \* TodoStore.items of todo.rs
  yitems,   \* TodoStore.items of todo_yaml.rs
  clock,    \* the reading Utc::now() gives
  uuids,    \* number of ids Uuid::new_v4 has handed out
  todoFiles,  \* the per-item files under .codex/todos
  tres,     \* the last call made on a store and its result
  tops      \* number of calls and clock steps so far

VARIABLES
  jsonFile,   \* session.json: the array of events
  jsonlFile,  \* session.jsonl: the lines written, in order
  writeMode,  \* SessionLogWriter.write_mode
  writers,    \* per SessionLogWriter: the position of its call of append,
              \* the event (ev), the redacted value (out), the array it
              \* read from session.json (arr) and its number of calls (n)
  logged      \* the events whose call of append has returned Ok, in order

VARIABLES
  hookDirs,   \* the dirs argument of load_from_dirs, in configuration order
  hookFiles,  \* per directory: whether it exists and the entries it holds
  ldres       \* the last call of load_from_dirs: the paths in the order
              \* read_dir yielded them, and Ok or Err

VARIABLES
  thooks,   \* HookRegistry.hooks of hooks.rs: the hooks in registration order
  eres      \* the last call of emit on that registry: the event, the hooks
            \* it cloned, the hooks it called in order and what it returned

VARIABLES
  rtask,    \* TaskRunner.spec.steps of the outermost runner of task.rs
  frames,   \* the calls of TaskRunner::run in progress, outermost first: the
            \* agent the runner was made for, its steps not yet done, its ok
  profile,  \* the agent profile in effect: what with_agent switched to last
  rlog,     \* the emits, bridge calls and with_agent calls made, in order,
            \* each with the profile in effect and the agent of its runner
  rres      \* "idle", "running", or what the outermost run returned

VARIABLES
  reloads,  \* the reloads in progress on the ConfigManager of yaml_config.rs,
            \* one in the watcher's thread and one in a caller's: where it
            \* is and the Config it has merged so far
  bcast     \* the snapshot sent last on ConfigManager.tx

VARIABLES
  lfiles,    \* the config.toml of the system, user and workspace scope
  ldirty,    \* a file event the watcher of layered_config.rs has not handled
  loverlay,  \* ConfigManager.runtime_overlay of layered_config.rs
  linner,    \* ConfigManager.inner of layered_config.rs: what get() returns
  lres,      \* the last call made on that manager and what it returned
  lops       \* number of calls and file edits so far

\* The variables of the scheduler, of the callers of the registry, of the
\* configuration manager, of a call of merge, of the Compactor, of the to-do
\* stores and of the session log
runVars == <<nSets, runPc, i, set, tasks, chat, hs, signal, sent, ui>>
regVars == <<calls>>
mgrVars == <<files, overlay, inner, dirty, rtKeys, last, nops>>
mrgVars == <<lower, higher, out>>
cmpVars == <<workspace, compactCfg, cres>>
todoVars == <<items, yitems, clock, uuids, todoFiles, tres, tops>>
logVars == <<jsonFile, jsonlFile, writeMode, writers, logged>>
ldVars == <<hookDirs, hookFiles, ldres>>
trVars == <<thooks, eres>>
rnVars == <<rtask, frames, profile, rlog, rres>>
wtVars == <<reloads, bcast>>
lyVars == <<lfiles, ldirty, loverlay, linner, lres, lops>>
moreVars == <<ldVars, trVars, rnVars, wtVars, lyVars>>
restVars == <<cmpVars, todoVars, logVars, moreVars>>
coreVars == <<cfg, rules, depth, runVars, regVars, mgrVars, mrgVars>>

vars == <<coreVars, restVars>>

NoSet == [mode |-> None, n |-> 0, title |-> <<>>]
NoTask == [pc |-> "none", rest |-> 0, kind |-> None, status |-> 0, ok |-> TRUE,
           nonzero |-> FALSE, failed |-> None, unrun |-> FALSE, log |-> <<>>]
NoCall == [model |-> None, base_url |-> None, prompt |-> <<>>]
NoCount == [start |-> 0, end |-> 0]
NoTaskCount == [start |-> 0, end |-> 0, ok |-> TRUE]

\* No call of emit in flight for a caller
NoResult == [decision |-> None, reason |-> "", children |-> 0]
NoEmit == [pc |-> "idle", ev |-> None, r |-> 0, a |-> 0, n |-> 0, ran |-> <<>>,
           admitted |-> FALSE, result |-> NoResult]

\* HookRegistry.recursion_limit, set by load_from_dirs:
\* cfg.get().hooks.recursion_limit.unwrap_or(3); an Option is << >> or <<v>>
recursion_limit(c) ==
  IF c.hooks.recursion_limit = << >> THEN DefaultRecursionLimit ELSE c.hooks.recursion_limit[1]

\* The receiver's counts after one more event
Observe(u, e) ==
  CASE e.type = "TaskSetStart" ->
         [sets |-> [u.sets EXCEPT ![e.set].start = @ + 1],
          tasks |-> [t \in TaskIds |-> NoTaskCount],
          cur |-> e.set,
          ok |-> TRUE]
    [] e.type = "TaskSetEnd" ->
         [u EXCEPT !.sets[e.set].end = @ + 1, !.ok = e.ok]
    [] e.type = "TaskStart" -> [u EXCEPT !.tasks[e.task].start = @ + 1]
    [] e.type = "TaskEnd" ->
         [u EXCEPT !.tasks[e.task].end = @ + 1, !.tasks[e.task].ok = e.ok]
    [] OTHER -> u

\* self.ui_tx.send(e)
Send(e) == sent' = <<e>> /\ ui' = Observe(ui, e)
NoSend == sent' = <<>> /\ ui' = ui

\* ------------------------------------------------------------ compact.rs
\* The paths under workspace_root, in the order of BTreeSet<PathBuf>
PathOrder == <<"a.rs", "b.rs", "c.rs">>
Paths == {PathOrder[k] : k \in 1..Len(PathOrder)}

\* now(), in seconds, and the modification times a file can have: this
\* second, 999985 s ago, 2000000 s ago, and 60 s ahead of the clock
NowSecs == 3000000
Fresh == NowSecs
Aging == NowSecs - 999985
Stale == NowSecs - 2000000
Ahead == NowSecs + 60

\* What the Compactor finds out about one path.  cand: the walk yields it as
\* a file and is_probably_text holds; changed: the index or the statuses of
\* the repository list it; todo: the status of the to-do item whose files
\* name it; exec: the last 500 lines of .codex/audit.log name it; mtime:
\* fs::metadata(p).modified(), an Option
FileInfo(cand, changed, todo, exec, mtime) ==
  [cand |-> cand, changed |-> changed, todo |-> todo, exec |-> exec, mtime |-> mtime]

Absent == FileInfo(FALSE, FALSE, None, FALSE, << >>)

FileInfos ==
  { Absent,
    FileInfo(FALSE, TRUE, None, FALSE, <<Stale>>),
    FileInfo(TRUE, FALSE, None, FALSE, <<Stale>>),
    FileInfo(TRUE, FALSE, None, FALSE, <<Fresh>>),
    FileInfo(TRUE, FALSE, None, FALSE, <<Ahead>>),
    FileInfo(TRUE, TRUE, None, FALSE, <<Stale>>),
    FileInfo(TRUE, TRUE, None, FALSE, <<Aging>>),
    FileInfo(TRUE, FALSE, "open", FALSE, <<Stale>>),
    FileInfo(TRUE, FALSE, "done", FALSE, <<Fresh>>),
    FileInfo(TRUE, FALSE, "in_progress", TRUE, <<Stale>>),
    FileInfo(TRUE, FALSE, None, TRUE, <<Fresh>>) }

\* SystemTime::duration_since: Err (<< >>) when earlier is the later one
duration_since(later, earlier) == IF earlier <= later THEN <<later - earlier>> ELSE << >>

saturating_sub(a, b) == IF a >= b THEN a - b ELSE 0

Min(a, b) == IF a <= b THEN a ELSE b

recent_mtime_score(info) ==
  IF info.mtime = << >> THEN 0
  ELSE LET d == duration_since(NowSecs, info.mtime[1])
       IN IF d = << >> THEN 0 ELSE Min(saturating_sub(1000000, d[1]), 1000000)

git_changed_files(ws) == {p \in Paths : ws[p].changed}

todo_file_set_any_status(ws) == {p \in Paths : ws[p].todo # None}

todo_file_set(ws) == {p \in Paths : ws[p].todo \in {"open", "in_progress"}}

extract_recent_exec_files(ws) == {p \in Paths : ws[p].exec}

score_files(ws, candidates, changed, todo_refs, exec_refs) ==
  [p \in candidates |->
     (IF p \in changed THEN 5000 ELSE 0)
     + (IF p \in todo_refs THEN 3000 ELSE 0)
     + (IF p \in exec_refs THEN 2000 ELSE 0)
     + (recent_mtime_score(ws[p]) \div 10)]

\* BTreeSet / BTreeMap into_iter: ascending by path
into_iter(S) == SelectSeq(PathOrder, LAMBDA p : p \in S)

\* ranked.sort_by(|a,b| b.1.cmp(&a.1)): stable, score descending
RECURSIVE insert_by(_, _)
insert_by(s, x) ==
  IF s = << >> THEN <<x>>
  ELSE IF Head(s)[2] >= x[2] THEN <<Head(s)>> \o insert_by(Tail(s), x)
  ELSE <<x>> \o s

RECURSIVE sort_by(_)
sort_by(s) ==
  IF s = << >> THEN << >>
  ELSE insert_by(sort_by(SubSeq(s, 1, Len(s) - 1)), s[Len(s)])

take_all(s, n) == s

take(s, n) == SubSeq(s, 1, Min(n, Len(s)))

\* Glob matching on the paths of the model
glob_match(g, p) == g \in {"**/*", "**/*.rs", "*.rs"} \/ g = p

GlobLists == {<< >>, <<"*.rs">>, <<"a.rs", "c.rs">>}

\* default_includes(cfg): compact.include_globs_default, or "**/*" when that
\* is empty; every path of the model matches either
default_includes == <<"**/*.rs">>

\* The walk of manual_compact and auto_compact (compact.rs 142-149, 199-206)
Candidates(ws, includes) ==
  {p \in Paths : ws[p].cand /\ \E k \in 1..Len(includes) : glob_match(includes[k], p)}

manual_compact(ws, c, include_globs) ==
  LET includes == IF include_globs = << >> THEN default_includes ELSE include_globs
      candidates == Candidates(ws, includes)
  IN [candidates |-> candidates, chosen |-> take(into_iter(candidates), c.max_files)]

auto_compact(ws, c) ==
  LET changed == git_changed_files(ws)
      candidates == Candidates(ws, default_includes)
      scores == score_files(ws, candidates, changed, todo_file_set(ws),
                            extract_recent_exec_files(ws))
      pairs == into_iter(candidates)
      ranked == sort_by([k \in 1..Len(pairs) |-> <<pairs[k], scores[pairs[k]]>>])
  IN [candidates |-> candidates,
      chosen |-> take([k \in 1..Len(ranked) |-> ranked[k][1]], c.max_files)]

should_autotrigger(c, last_compact, stage) ==
  IF ~c.auto_enable THEN FALSE
  ELSE IF stage = "EndOfTask" /\ ~c.auto_on_task_end THEN FALSE
  ELSE IF last_compact # << >> /\ duration_since(NowSecs, last_compact[1]) # << >>
         THEN duration_since(NowSecs, last_compact[1])[1] >= c.auto_min_interval_secs
  ELSE TRUE

\* CompactConfig::default() with max_files of the model's size
DefaultCompact ==
  [auto_enable |-> TRUE, auto_on_task_end |-> TRUE, auto_min_interval_secs |-> 120,
   max_files |-> MaxKeep]

NoCompact == [op |-> None, err |-> FALSE, candidates |-> {}, chosen |-> << >>,
              last |-> << >>, stage |-> None, fire |-> FALSE]

\* --------------------------------------------------------------- todo.rs
TodoStatuses == {"open", "in_progress", "done"}

Titles == {"fix parser", "write docs"}

SessionIds == {"s1", "s2"}

\* Utc::now(): the wall clock, which the system may set forward or back.  A
\* timestamp of the model is the reading that the RFC 3339 text names.
ClockReadings == 0..MaxClock

\* The day of a reading, as format!("{:04}-{:02}-{:02}", ..) names it
ReadingsPerDay == 2
date_of(now) == now \div ReadingsPerDay

\* uuid::Uuid::new_v4(): a value that was not handed out before
new_v4(n) == n + 1

\* items.iter_mut().find(|x| x.id == id): the position of the first item
\* with the id, 0 for None
find_or_first(its, id) == IF its = << >> THEN 0 ELSE 1

find(its, id) ==
  IF \E k \in 1..Len(its) : its[k].id = id
    THEN CHOOSE k \in 1..Len(its) : its[k].id = id /\ \A j \in 1..(k - 1) : its[j].id # id
    ELSE 0

\* TodoStore::add (todo.rs 109-118)
add(its, id, title, now) ==
  Append(its, [id |-> id, title |-> title, status |-> "open",
               created_at |-> now, updated_at |-> now])

\* TodoStore::set_status (todo.rs 119-125)
set_status(its, id, status, now) ==
  LET k == find(its, id)
  IN IF k = 0 THEN [ok |-> FALSE, items |-> its]
     ELSE [ok |-> TRUE, items |-> [its EXCEPT ![k].status = status, ![k].updated_at = now]]

\* items.retain(|x| x.id != id)
retain(its, id) == SelectSeq(its, LAMBDA x : x.id # id)

\* TodoStore::remove (todo.rs 126-131)
remove(its, id) ==
  LET kept == retain(its, id)
  IN [ok |-> Len(kept) # Len(its), items |-> kept]

\* TodoStore::add_and_persist (todo_yaml.rs 42-61): the item pushed and the
\* path of its file
persisted(id, session_id, task_number, title, now) ==
  [id |-> id, session_id |-> session_id, date |-> date_of(now),
   task_number |-> task_number, title |-> title, status |-> "open"]

per_item_path(it) == <<it.date, it.session_id, it.task_number, it.id>>

NoTodoOp == [op |-> None, id |-> 0, ok |-> TRUE]

\* ------------------------------------------------------- session_logs.rs
WriterIds == 1..MaxWriters

\* A string is the sequence of its characters
LowerCase == <<"a", "b", "c", "d", "e", "f", "g", "h", "i", "j", "k", "l", "m",
               "n", "o", "p", "q", "r", "s", "t", "u", "v", "w", "x", "y", "z">>
UpperCase == <<"A", "B", "C", "D", "E", "F", "G", "H", "I", "J", "K", "L", "M",
               "N", "O", "P", "Q", "R", "S", "T", "U", "V", "W", "X", "Y", "Z">>

\* str::to_ascii_uppercase
to_ascii_uppercase(s) ==
  [k \in 1..Len(s) |->
     IF \E j \in 1..26 : LowerCase[j] = s[k]
       THEN UpperCase[CHOOSE j \in 1..26 : LowerCase[j] = s[k]]
       ELSE s[k]]

\* str::contains
contains(s, pat) ==
  \E k \in 0..(Len(s) - Len(pat)) : SubSeq(s, k + 1, k + Len(pat)) = pat

patterns == {<<"K", "E", "Y">>, <<"T", "O", "K", "E", "N">>, <<"S", "E", "C", "R", "E", "T">>, <<"P", "A", "S", "S", "W", "O", "R", "D">>}

REDACTED == <<"[", "R", "E", "D", "A", "C", "T", "E", "D", "]">>

\* redact_str (session_logs.rs 114-119)
redact_str_exact(s) == IF \E pat \in patterns : contains(s, pat) THEN REDACTED ELSE s

redact_str(s) ==
  IF \E pat \in patterns : contains(to_ascii_uppercase(s), pat) THEN REDACTED ELSE s

\* serde_json::Value.  t is the variant; s the text of a String and the
\* literal of a Number, Bool or Null; xs the elements of an Array and the
\* entries of an Object (k is the key of an entry, empty in an Array)
JString(s) == [t |-> "string", s |-> s, xs |-> << >>]
JNumber(lit) == [t |-> "number", s |-> lit, xs |-> << >>]
JNull == [t |-> "null", s |-> <<"n", "u", "l", "l">>, xs |-> << >>]
JBool(lit) == [t |-> "bool", s |-> lit, xs |-> << >>]
JArray(vals) == [t |-> "array", s |-> << >>,
                 xs |-> [k \in 1..Len(vals) |-> [k |-> << >>, x |-> vals[k]]]]
JObject(entries) == [t |-> "object", s |-> << >>,
                     xs |-> [k \in 1..Len(entries) |-> [k |-> entries[k][1], x |-> entries[k][2]]]]

\* redact_json (session_logs.rs 113-134)
RECURSIVE redact_json(_)
redact_json(v) ==
  CASE v.t = "string" -> [v EXCEPT !.s = redact_str(v.s)]
    [] v.t \in {"array", "object"} ->
         [v EXCEPT !.xs = [k \in 1..Len(v.xs) |-> [k |-> v.xs[k].k, x |-> redact_json(v.xs[k].x)]]]
    [] OTHER -> v

\* serde_json::to_value(OutEvent { ts, ev }): ts and the flattened variant
\* with its tag
OutEvent(ts, tag, fields) ==
  JObject(<<<<<<"t", "s">>, JString(ts)>>, <<<<"t", "y", "p", "e">>, JString(tag)>>>> \o fields)

\* The events the callers log, at the timestamp Utc::now().to_rfc3339() gives
SessionEvents ==
  { OutEvent(<<"2", "0", "2", "6">>, <<"u", "s", "e", "r", "_", "m", "s", "g">>, <<<<<<"c", "o", "n", "t", "e", "n", "t">>, JString(<<"h", "e", "l", "l", "o">>)>>>>),
    OutEvent(<<"2", "0", "2", "6">>, <<"e", "x", "e", "c">>,
             <<<<<<"c", "m", "d">>, JString(<<"l", "s">>)>>,
               <<<<"a", "r", "g", "v">>, JArray(<<JString(<<"h", "e", "l", "l", "o">>), JString(<<"a", "p", "i", "K", "e", "y", "=", "1">>)>>)>>,
               <<<<"s", "t", "a", "t", "u", "s">>, JNumber(<<"0">>)>>>>),
    OutEvent(<<"2", "0", "2", "6">>, <<"m", "e", "t", "a">>,
             <<<<<<"k", "e", "y">>, JString(<<"l", "s">>)>>,
               <<<<"v", "a", "l", "u", "e">>, JArray(<<JObject(<<<<<<"k", "e", "y">>, JString(<<"P", "a", "s", "s", "W", "o", "r", "d">>)>>,
                                            <<<<"c", "m", "d">>, JNull>>>>),
                                 JBool(<<"t", "r", "u", "e">>),
                                 JString(REDACTED)>>)>>>>) }

\* WriteMode, from sessions.write_mode (session_logs.rs 57-61)
WriteModes == {"json", "jsonl", "both"}

\* The end-of-line writeln! writes after the text of the event
NewLine == [t |-> "newline", s |-> << >>, xs |-> << >>]

\* The lines of session.jsonl: the pieces written between the ends of line
RECURSIVE LinesFrom(_, _, _)
LinesFrom(pieces, k, line) ==
  IF k > Len(pieces) THEN (IF line = << >> THEN << >> ELSE <<line>>)
  ELSE IF pieces[k] = NewLine THEN <<line>> \o LinesFrom(pieces, k + 1, << >>)
  ELSE LinesFrom(pieces, k + 1, Append(line, pieces[k]))

Lines(pieces) == LinesFrom(pieces, 1, << >>)

\* arr.push(value.clone()) (session_logs.rs 81)
push_alone(arr, value) == <<value>>

push(arr, value) == Append(arr, value)

NoAppend == [pc |-> "idle", ev |-> JNull, out |-> JNull, arr |-> << >>, n |-> 0]

\* The parts of the system a specification leaves aside stay as constructed
NoOp == [op |-> None, scope |-> None, result |-> None]
NoMerge == [of |-> None, cfg |-> DefaultConfig]

ManagerIdle ==
  /\ files = [d \in Dirs |-> [f \in {FileNames[k] : k \in 1..Len(FileNames)} |-> NoFile]]
  /\ overlay = DefaultConfig
  /\ inner = DefaultConfig
  /\ dirty = FALSE
  /\ rtKeys = {}
  /\ last = NoOp
  /\ nops = 0

MergeIdle ==
  /\ lower = DefaultConfig
  /\ higher = DefaultConfig
  /\ out = NoMerge

CompactorIdle ==
  /\ workspace = [p \in Paths |-> Absent]
  /\ compactCfg = DefaultCompact
  /\ cres = NoCompact

TodoIdle ==
  /\ items = << >>
  /\ yitems = << >>
  /\ clock = 0
  /\ uuids = 0
  /\ todoFiles = {}
  /\ tres = NoTodoOp
  /\ tops = 0

LogIdle ==
  /\ jsonFile = << >>
  /\ jsonlFile = << >>
  /\ writeMode = "both"
  /\ writers = [w \in WriterIds |-> NoAppend]
  /\ logged = << >>

NoLoad == [op |-> None, order |-> << >>, result |-> None]

LoaderIdle ==
  /\ hookDirs = << >>
  /\ hookFiles = << >>
  /\ ldres = NoLoad

NoHookCall == [op |-> None, ev |-> None, hooks |-> << >>, called |-> << >>, out |-> None]

TraitIdle ==
  /\ thooks = << >>
  /\ eres = NoHookCall

RunnerIdle ==
  /\ rtask = << >>
  /\ frames = << >>
  /\ profile = "main"
  /\ rlog = << >>
  /\ rres = "idle"

\* The threads that reload: the watcher's callback and a caller of
\* apply_runtime_overlay
ReloadThreads == {"watcher", "caller"}
NoReload == [pc |-> "idle", merged |-> DefaultConfig]

WatchIdle ==
  /\ reloads = [t \in ReloadThreads |-> NoReload]
  /\ bcast = << >>

NoLayeredOp == [op |-> None, arg |-> None, result |-> None, target |-> ModelTarget("", None),
                yaml_target |-> ModelTarget("", None)]

LayeredIdle ==
  /\ lfiles = << >>
  /\ ldirty = FALSE
  /\ loverlay = << >>
  /\ linner = << >>
  /\ lres = NoLayeredOp
  /\ lops = 0

MoreIdle == LoaderIdle /\ TraitIdle /\ RunnerIdle /\ WatchIdle /\ LayeredIdle

RestIdle == CompactorIdle /\ TodoIdle /\ LogIdle /\ MoreIdle

SchedulerIdle ==
  /\ nSets = 0
  /\ runPc = "ok"
  /\ i = 0
  /\ set = NoSet
  /\ tasks = [t \in TaskIds |-> NoTask]
  /\ chat = NoCall
  /\ hs = [s \in SetIds |-> [calls |-> 0, result |-> None]]
  /\ signal = None
  /\ sent = <<>>
  /\ ui = [sets |-> [s \in SetIds |-> NoCount], tasks |-> [t \in TaskIds |-> NoTaskCount],
           cur |-> 0, ok |-> TRUE]

RegistryIdle ==
  /\ cfg = DefaultConfig
  /\ rules = << >>
  /\ depth = 0
  /\ calls = [c \in CallIds |-> NoEmit]

Init ==
  /\ RestIdle
  /\ ManagerIdle
  /\ MergeIdle
  /\ cfg \in Configs
  /\ rules \in RuleSets
  /\ depth = 0
  /\ nSets \in 0..MaxSets
  /\ runPc = "loop"
  /\ i = 0
  /\ set = NoSet
  /\ tasks = [t \in TaskIds |-> NoTask]
  /\ chat = NoCall
  /\ hs = [s \in SetIds |-> [calls |-> 0, result |-> None]]
  /\ signal = None
  /\ sent = <<>>
  /\ ui = [sets |-> [s \in SetIds |-> NoCount], tasks |-> [t \in TaskIds |-> NoTaskCount],
           cur |-> 0, ok |-> TRUE]
  /\ calls = [c \in CallIds |-> NoEmit]

\* run, loop head: the next set of the plan is entered (taskset.rs 79-84)
SetStart ==
  /\ runPc = "loop"
  /\ i < nSets
  /\ \E m \in Modes, n \in 0..MaxTasks :
       /\ set' = [mode |-> m, n |-> n, title |-> PlanTitle(i + 1)]
       /\ tasks' = [t \in TaskIds |-> IF t <= n THEN [NoTask EXCEPT !.pc = "init"] ELSE NoTask]
  /\ i' = i + 1
  /\ runPc' = "set"
  /\ signal' = None
  /\ Send(TaskSetStartEv(i + 1))
  /\ UNCHANGED <<regVars, mgrVars, mrgVars, cfg, rules, depth, nSets, chat, hs, restVars>>

\* run, loop exhausted: Ok(()) (taskset.rs 97)
PlanDone ==
  /\ runPc = "loop"
  /\ i = nSets
  /\ runPc' = "ok"
  /\ NoSend
  /\ UNCHANGED <<regVars, mgrVars, mrgVars, cfg, rules, depth, nSets, i, set, tasks, chat, hs, signal, restVars>>

\* The bridge a step variant is routed to and what it is called with
BridgeOf(k) == IF k = "chat" THEN "chat" ELSE IF k = "mcp_call" THEN "mcp" ELSE "exec"

CallArg(c, k) ==
  CASE k = "chat" -> pick_model(c, "Chat").name
    [] k = "exec" -> "cmd"
    [] k = "git" -> "git"
    [] k = "mcp_call" -> "server.method"

CallEntry(c, k) == [e |-> "call", what |-> BridgeOf(k), arg |-> CallArg(c, k)]
RetEntry(res) == [e |-> "ret", what |-> res, arg |-> ""]
EmitEntry(ty) == [e |-> "emit", what |-> ty, arg |-> ""]
EmitDoneEntry(ty) == [e |-> "emit_done", what |-> ty, arg |-> ""]

\* What a bridge can return: Err, or Ok (with the exit status for exec)
BridgeOk(st) == [err |-> FALSE, status |-> st]
BridgeErr == [err |-> TRUE, status |-> 0]

BridgeResults(k) ==
  IF BridgeOf(k) = "exec" THEN {BridgeOk(c) : c \in ExitCodes} \cup {BridgeErr}
                          ELSE {BridgeOk(0), BridgeErr}

Admitted_at_limit == depth <= recursion_limit(cfg)

\* HookRegistry::emit, the guard of lines 75-76: the call is let in
Admitted == depth < recursion_limit(cfg)

\* emit(ty) suspends its caller: it is let in and emit_inner awaits the exit
\* of a child (Command::status, hooks_yaml.rs 92).  Otherwise emit returns
\* within the step that calls it, depth back at its value.
Suspends(ty) == Admitted /\ emit_inner(rules, ty).children > 0

\* run_sequential calls run_one for task t when the tasks before it returned
\* Ok; run_parallel creates all futures and join_all polls them in order.
sequential_may_start_eager(ts, t) == \A u \in 1..(t - 1) : ts[u].pc # "init"

sequential_may_start(ts, t) == \A u \in 1..(t - 1) : ts[u].pc = "ret_ok"
parallel_may_start(ts, t) == \A u \in 1..(t - 1) : ts[u].pc # "init"

\* run_one, entry: TaskStart is sent and hooks.emit(TaskStart) is awaited
\* (taskset.rs 118-127)
TaskStart(t) ==
  /\ runPc = "set"
  /\ t <= set.n
  /\ tasks[t].pc = "init"
  /\ IF set.mode = "parallel" THEN parallel_may_start(tasks, t)
                               ELSE sequential_may_start(tasks, t)
  /\ \E len \in 0..MaxSteps :
       tasks' = [tasks EXCEPT ![t] = [@ EXCEPT !.rest = len,
                                               !.pc = IF Suspends("task_start") THEN "hook_start"
                                                                             ELSE "loop"]]
  /\ depth' = IF Suspends("task_start") THEN depth + 1 ELSE depth
  /\ Send(TaskStartEv(i, t))
  /\ UNCHANGED <<regVars, mgrVars, mrgVars, cfg, rules, nSets, runPc, i, set, chat, hs, signal, restVars>>

\* hooks.emit(TaskStart) returns; its result is dropped by .ok()
TaskStartHookDone(t) ==
  /\ tasks[t].pc = "hook_start"
  /\ depth' = depth - 1
  /\ tasks' = [tasks EXCEPT ![t].pc = "loop"]
  /\ NoSend
  /\ UNCHANGED <<regVars, mgrVars, mrgVars, cfg, rules, nSets, runPc, i, set, chat, hs, signal, restVars>>

\* run_one, step loop: the next step calls its bridge (taskset.rs 128-148)
StepBegin(t) ==
  /\ tasks[t].pc = "loop"
  /\ tasks[t].rest > 0
  /\ \E k \in StepKinds :
       tasks' = [tasks EXCEPT ![t] = [@ EXCEPT !.pc = "await", !.rest = @ - 1, !.kind = k,
                                               !.log = <<CallEntry(cfg, k)>>]]
  /\ NoSend
  /\ UNCHANGED <<regVars, mgrVars, mrgVars, cfg, rules, depth, nSets, runPc, i, set, chat, hs, signal, restVars>>

\* What the step log gains when do_exec returned Ok and emit(PostExec) is
\* called: an emit that does not suspend has returned at once
PostExecLog(suspends) ==
  IF suspends THEN <<RetEntry("ok"), EmitEntry("post_exec")>>
              ELSE <<RetEntry("ok"), EmitEntry("post_exec"), EmitDoneEntry("post_exec")>>

\* The effect of `if status != 0 { ok = false; }`
ok_after(ok, status) == ok /\ status = 0

\* The awaited bridge returns (taskset.rs 134-150).  Err leaves run_one by `?`;
\* in a sequential set it leaves run_sequential and run by `?` as well.
BridgeReturn(t) ==
  /\ tasks[t].pc = "await"
  /\ \E res \in BridgeResults(tasks[t].kind) :
       LET k == tasks[t].kind
           me == tasks[t]
       IN
       IF res.err THEN
         /\ tasks' = [tasks EXCEPT ![t] = [me EXCEPT !.pc = "ret_err", !.failed = BridgeOf(k),
                                                    !.kind = None, !.log = <<>>,
                                                    !.unrun = me.rest > 0, !.rest = 0]]
         /\ runPc' = IF set.mode = "parallel" THEN runPc ELSE "err"
         /\ depth' = depth
         /\ NoSend
       ELSE IF k \in {"chat", "mcp_call"} THEN
         /\ tasks' = [tasks EXCEPT ![t] = [me EXCEPT !.pc = "loop",
                                                    !.log = Append(@, RetEntry("ok"))]]
         /\ UNCHANGED <<runPc, depth>>
         /\ Send(TaskProgressEv(i, t))
       ELSE IF k = "exec" THEN
         /\ tasks' = [tasks EXCEPT ![t] =
              [me EXCEPT !.status = IF Suspends("post_exec") THEN res.status ELSE 0,
                         !.nonzero = @ \/ res.status # 0,
                         !.pc = IF Suspends("post_exec") THEN "hook_post" ELSE "loop",
                         !.ok = IF Suspends("post_exec") THEN @ ELSE ok_after(@, res.status),
                         !.log = me.log \o PostExecLog(Suspends("post_exec"))]]
         /\ depth' = IF Suspends("post_exec") THEN depth + 1 ELSE depth
         /\ runPc' = runPc
         /\ Send(TaskProgressEv(i, t))
       ELSE
         /\ tasks' = [tasks EXCEPT ![t] = [me EXCEPT !.nonzero = @ \/ res.status # 0,
                                                    !.pc = "loop",
                                                    !.ok = ok_after(@, res.status),
                                                    !.log = Append(@, RetEntry("ok"))]]
         /\ UNCHANGED <<runPc, depth>>
         /\ NoSend
  /\ UNCHANGED <<regVars, mgrVars, mrgVars, cfg, rules, nSets, i, set, chat, hs, signal, restVars>>

\* hooks.emit(PostExec) returns, then the status is looked at (taskset.rs 140-141)
PostExecHookDone(t) ==
  /\ tasks[t].pc = "hook_post"
  /\ depth' = depth - 1
  /\ tasks' = [tasks EXCEPT ![t] = [@ EXCEPT !.pc = "loop",
                                            !.ok = ok_after(@, tasks[t].status),
                                            !.status = 0,
                                            !.log = Append(@, EmitDoneEntry("post_exec"))]]
  /\ NoSend
  /\ UNCHANGED <<regVars, mgrVars, mrgVars, cfg, rules, nSets, runPc, i, set, chat, hs, signal, restVars>>

\* run_one, after the last step: hooks.emit(TaskEnd) is awaited (taskset.rs 154)
TaskFinish(t) ==
  /\ tasks[t].pc = "loop"
  /\ tasks[t].rest = 0
  /\ IF Suspends("task_end")
       THEN /\ depth' = depth + 1
            /\ tasks' = [tasks EXCEPT ![t] = [@ EXCEPT !.pc = "hook_end", !.kind = None,
                                                      !.log = <<>>]]
            /\ NoSend
       ELSE /\ depth' = depth
            /\ tasks' = [tasks EXCEPT ![t] = [@ EXCEPT !.pc = "ret_ok", !.kind = None,
                                                      !.log = <<>>]]
            /\ Send(TaskEndEv(i, t, tasks[t].ok))
  /\ UNCHANGED <<regVars, mgrVars, mrgVars, cfg, rules, nSets, runPc, i, set, chat, hs, signal, restVars>>

\* hooks.emit(TaskEnd) returns; TaskEnd is sent and run_one returns Ok(ok)
\* (taskset.rs 155-156)
TaskEndHookDone(t) ==
  /\ tasks[t].pc = "hook_end"
  /\ depth' = depth - 1
  /\ tasks' = [tasks EXCEPT ![t].pc = "ret_ok"]
  /\ Send(TaskEndEv(i, t, tasks[t].ok))
  /\ UNCHANGED <<regVars, mgrVars, mrgVars, cfg, rules, nSets, runPc, i, set, chat, hs, signal, restVars>>

\* run_sequential returns Ok(all_ok) once every run_one returned Ok
run_sequential_done(ts, n) == \A t \in 1..n : ts[t].pc = "ret_ok"
run_sequential_ok(ts, n) == \A t \in 1..n : ts[t].ok

run_parallel_done_first(ts, n) ==
  n = 0 \/ \E t \in 1..n : ts[t].pc \in {"ret_ok", "ret_err"}

\* run_parallel returns once join_all has the result of every future
run_parallel_done(ts, n) == \A t \in 1..n : ts[t].pc \in {"ret_ok", "ret_err"}
run_parallel_ok_errors_pass(ts, n) == \A t \in 1..n : ts[t].pc = "ret_ok" => ts[t].ok

\* results.into_iter().all(|r| r.unwrap_or(false))
run_parallel_ok(ts, n) == \A t \in 1..n : ts[t].pc = "ret_ok" /\ ts[t].ok

\* The arguments run passes to do_chat after a set (taskset.rs 88-90)
SummaryCall(c, title) ==
  LET main == pick_model(c, "TaskStatus") IN
  [model |-> main.name,
   base_url |-> IF main.base_url = None THEN "" ELSE main.base_url,
   prompt |-> SummaryPrompt(title)]

\* run: the set has returned; TaskSetEnd is sent and the summary chat is
\* called (taskset.rs 81-90)
SetEnd ==
  /\ runPc = "set"
  /\ IF set.mode = "parallel" THEN run_parallel_done(tasks, set.n)
                               ELSE run_sequential_done(tasks, set.n)
  /\ LET ok == IF set.mode = "parallel" THEN run_parallel_ok(tasks, set.n)
                                        ELSE run_sequential_ok(tasks, set.n)
     IN Send(TaskSetEndEv(i, ok))
  /\ chat' = SummaryCall(cfg, set.title)
  /\ hs' = [hs EXCEPT ![i].calls = @ + 1]
  /\ runPc' = "summary"
  /\ UNCHANGED <<regVars, mgrVars, mrgVars, cfg, rules, depth, nSets, i, set, tasks, signal, restVars>>

\* The summary chat returns; Err leaves run by `?` (taskset.rs 90-96)
SummaryReturn ==
  /\ runPc = "summary"
  /\ \E res \in {"ok", "err"} :
       /\ hs' = [hs EXCEPT ![i].result = res]
       /\ runPc' = IF res = "ok" THEN "loop" ELSE "err"
  /\ chat' = NoCall
  /\ NoSend
  /\ UNCHANGED <<regVars, mgrVars, mrgVars, cfg, rules, depth, nSets, i, set, tasks, signal, restVars>>

\* The user answers the confirmation that is pending between two sets.  run
\* has no waiting point for the answer (taskset.rs 92-95): nothing reads signal.
Confirm ==
  /\ runPc = "loop"
  /\ 1 <= i /\ i < nSets
  /\ signal = None
  /\ signal' \in {"continue", "cancel"}
  /\ NoSend
  /\ UNCHANGED <<regVars, mgrVars, mrgVars, cfg, rules, depth, nSets, runPc, i, set, tasks, chat, hs, restVars>>

Next ==
  \/ SetStart
  \/ PlanDone
  \/ \E t \in TaskIds : TaskStart(t)
  \/ \E t \in TaskIds : TaskStartHookDone(t)
  \/ \E t \in TaskIds : StepBegin(t)
  \/ \E t \in TaskIds : BridgeReturn(t)
  \/ \E t \in TaskIds : PostExecHookDone(t)
  \/ \E t \in TaskIds : TaskFinish(t)
  \/ \E t \in TaskIds : TaskEndHookDone(t)
  \/ SetEnd
  \/ SummaryReturn
  \/ Confirm

Spec == Init /\ [][Next]_vars

\* ------------------------------------------- hooks_yaml.rs, HookRegistry
\* The registry on its own: up to MaxCalls calls of emit are in flight at a
\* time (nested in a hook's own work, or from concurrent tasks).  emit
\* suspends where emit_inner awaits the exit of a child process.

\* The tags rule_matches knows, one per HookEvent variant
HookEventTags ==
  {"pre_tool_use", "post_tool_use", "pre_exec", "post_exec", "pre_mcp", "post_mcp",
   "task_start", "task_progress", "task_end"}

\* The rule lists the registry is loaded with, besides those of RuleSets
HookRuleLists ==
  { << HookRule("off", {"pre_exec"}, << ExecAction("fail") >>, TRUE, FALSE),
       HookRule("audit", {"pre_exec", "task_end"},
                << ExecAction("fail"), PromptAction, ExecAction("success") >>, FALSE, TRUE),
       HookRule("gate", {"pre_exec"},
                << ExecAction("fail"), ExecAction("success") >>, TRUE, TRUE),
       HookRule("late", {"pre_exec", "task_end"}, << ExecAction("success") >>, FALSE, TRUE) >>,
    << HookRule("typo", {"preexec", "PreExec"}, << ExecAction("fail") >>, TRUE, TRUE),
       HookRule("broken", {"task_end"}, << ExecAction("spawn_error") >>, FALSE, TRUE),
       HookRule("after", {"task_end", "pre_exec"}, << ExecAction("success") >>, FALSE, TRUE) >>,
    << HookRule("broken_gate", {"post_exec"},
                << ExecAction("success"), ExecAction("spawn_error") >>, TRUE, TRUE),
       HookRule("end", {"post_exec"}, << PromptAction >>, FALSE, TRUE) >> }

\* emit_inner from rule r, action a on: it skips the rules that are disabled or
\* do not match (lines 87-88), performs the Prompt actions on its way (97-109,
\* no await) and stops at the next Exec action, whose child it awaits (92), or
\* at the end of the rule list (r = 0).  ran collects the actions performed.
RECURSIVE seek(_, _, _, _, _)
seek(rs, ty, r, a, ran) ==
  IF r > Len(rs) THEN [r |-> 0, a |-> 0, ran |-> ran]
  ELSE IF ~rs[r].enabled \/ ~rule_matches(rs[r], ty) THEN seek(rs, ty, r + 1, 1, ran)
  ELSE IF a > Len(rs[r].actions) THEN seek(rs, ty, r + 1, 1, ran)
  ELSE IF rs[r].actions[a].action = "prompt" THEN seek(rs, ty, r, a + 1, Append(ran, <<r, a>>))
  ELSE [r |-> r, a |-> a, ran |-> ran]

HookInit ==
  /\ RestIdle
  /\ cfg \in Configs
  /\ rules \in RuleSets \cup HookRuleLists
  /\ depth = 0
  /\ calls = [c \in CallIds |-> NoEmit]
  /\ SchedulerIdle
  /\ ManagerIdle
  /\ MergeIdle

\* emit is called (hooks_yaml.rs 73-79): the guard, and emit_inner up to its
\* first await.  With nothing to await emit returns within the step, depth
\* back at its value.
EmitEnter(c) ==
  /\ calls[c].pc = "idle"
  /\ \E ty \in HookEventTags :
       IF ~Admitted THEN
         /\ calls' = [calls EXCEPT ![c] = [NoEmit EXCEPT !.pc = "done", !.ev = ty,
                                                         !.result = Continue(0)]]
         /\ depth' = depth
       ELSE LET to == seek(rules, ty, 1, 1, <<>>) IN
         IF to.r = 0 THEN
           /\ calls' = [calls EXCEPT ![c] = [NoEmit EXCEPT !.pc = "done", !.ev = ty,
                                                           !.admitted = TRUE, !.ran = to.ran,
                                                           !.result = Continue(0)]]
           /\ depth' = depth
         ELSE
           /\ calls' = [calls EXCEPT ![c] = [NoEmit EXCEPT !.pc = "child", !.ev = ty,
                                                           !.admitted = TRUE, !.ran = to.ran,
                                                           !.r = to.r, !.a = to.a]]
           /\ depth' = depth + 1
  /\ UNCHANGED <<cfg, rules, runVars, mgrVars, mrgVars, restVars>>

\* emit after emit_inner has returned res (hooks_yaml.rs 79-81): the
\* counter is taken down before res is looked at, whether it is Ok or Err.
emit_release_ok_only(d, failed) == IF failed THEN d ELSE d - 1

emit_release(d, failed) == d - 1

\* Command::status of the awaited child returns (hooks_yaml.rs 92-95) and
\* emit_inner runs on to its next await or to its end; when it ends emit
\* takes depth down (80) and returns.
ChildExit(c) ==
  /\ calls[c].pc = "child"
  /\ LET me == calls[c]
         rule == rules[me.r]
         exit == rule.actions[me.a].exit
         ran == Append(me.ran, <<me.r, me.a>>)
         to == seek(rules, me.ev, me.r, me.a + 1, ran)
     IN
     IF exit = "spawn_error" THEN
       /\ calls' = [calls EXCEPT ![c] = [me EXCEPT !.pc = "done", !.ran = ran,
                                                  !.result = EmitErr(me.n)]]
       /\ depth' = emit_release(depth, TRUE)
     ELSE IF exit = "fail" /\ rule.deny_on_fail THEN
       /\ calls' = [calls EXCEPT ![c] = [me EXCEPT !.pc = "done", !.ran = ran, !.n = @ + 1,
                        !.result = Deny(<<"hook", rule.name, "exec failed">>, me.n + 1)]]
       /\ depth' = emit_release(depth, FALSE)
     ELSE IF to.r = 0 THEN
       /\ calls' = [calls EXCEPT ![c] = [me EXCEPT !.pc = "done", !.ran = to.ran, !.n = @ + 1,
                                                  !.result = Continue(me.n + 1)]]
       /\ depth' = emit_release(depth, FALSE)
     ELSE
       /\ calls' = [calls EXCEPT ![c] = [me EXCEPT !.ran = to.ran, !.n = @ + 1,
                                                  !.r = to.r, !.a = to.a]]
       /\ depth' = depth
  /\ UNCHANGED <<cfg, rules, runVars, mgrVars, mrgVars, restVars>>

\* The caller has taken the result of emit
EmitTaken(c) ==
  /\ calls[c].pc = "done"
  /\ calls' = [calls EXCEPT ![c] = NoEmit]
  /\ UNCHANGED <<cfg, rules, depth, runVars, mgrVars, mrgVars, restVars>>

HookNext ==
  \/ \E c \in CallIds : EmitEnter(c)
  \/ \E c \in CallIds : ChildExit(c)
  \/ \E c \in CallIds : EmitTaken(c)

HookSpec == HookInit /\ [][HookNext]_vars

\* ------------------------------------------------- yaml_config.rs, merge
\* merge as a function of its two arguments.  The arguments are Config values
\* that differ from Config::default() in at most MaxChanged settings.
OverrideMaps ==
  { [k \in {} |-> ModelTarget("", None)],
    [k \in {"compact"} |-> ModelTarget("B", None)],
    [k \in {"compact", "task_status"} |-> ModelTarget("C", "http://c")] }

AllConfigs ==
  [models : [default : {ModelTarget("", None), ModelTarget("A", None)},
             overrides : OverrideMaps],
   shell : [approval : {"on_request", "never"}],
   ui : [status_bar : BOOLEAN],
   history : [persist : {<< >>, <<"all">>}],
   compact : [auto_enable : BOOLEAN, auto_min_interval_secs : {0, 120},
              max_context_chars : {0, 40000}, max_files : {0, 10, 24, 50}],
   hooks : [recursion_limit : {<< >>, <<1>>}, dirs : {<< >>, <<"hooks.d">>}]]

Changed(c) ==
  {key \in DOMAIN to_yaml(c) : to_yaml(c)[key] # to_yaml(DefaultConfig)[key]}

ConfigValues == {c \in AllConfigs : Cardinality(Changed(c)) <= MaxChanged}

MergeInit ==
  /\ RestIdle
  /\ lower \in ConfigValues
  /\ higher \in ConfigValues
  /\ out = NoMerge
  /\ RegistryIdle
  /\ SchedulerIdle
  /\ ManagerIdle

\* merge(&mut a, &b) with a = lower and b = higher
MergePair ==
  /\ out.of = None
  /\ out' = [of |-> "pair", cfg |-> merge(lower, higher)]
  /\ UNCHANGED <<lower, higher, cfg, rules, depth, runVars, regVars, mgrVars, restVars>>

\* merge(&mut a, &b) with b a copy of a = lower
MergeSelf ==
  /\ out.of = None
  /\ out' = [of |-> "self", cfg |-> merge(lower, lower)]
  /\ UNCHANGED <<lower, higher, cfg, rules, depth, runVars, regVars, mgrVars, restVars>>

MergeNext == MergePair \/ MergeSelf

MergeSpec == MergeInit /\ [][MergeNext]_vars

\* ---------------------------------------- yaml_config.rs, ConfigManager
\* The manager with its three scope directories.  Files are edited from
\* outside (the watcher reloads on the file event), patches are written with
\* write_patch_file and laid over with apply_runtime_overlay; MaxOps bounds
\* the number of edits and calls.

\* The YAML documents found in the directories and given as patches
EmptyDoc == [key \in {} |-> 0]

Docs ==
  { EmptyDoc,
    ("models.default.name" :> "A"),
    ("compact.max_files" :> 50),
    ("models.overrides" :> [k \in {"compact"} |-> ModelTarget("B", None)]
       @@ "history.persist" :> <<"all">>),
    ("models.overrides" :> [k \in {"compact"} |-> ModelTarget("C", None)]
       @@ "compact.max_files" :> 10) }

\* The directories as load finds them
InitialFiles ==
  { [d \in Dirs |->
       [f \in {FileNames[k] : k \in 1..Len(FileNames)} |->
          IF f # FileNames[1] THEN NoFile
          ELSE IF d = "system_dir" THEN sys
          ELSE IF d = "user_dir" THEN usr
          ELSE ws]] :
      sys \in {NoFile, Yaml("models.default.name" :> "A")},
      usr \in {NoFile, Garbage} \cup {Yaml(doc) : doc \in Docs},
      ws \in {NoFile, Garbage} \cup {Yaml(doc) : doc \in Docs} }

\* ConfigManager::load (yaml_config.rs 169-185)
ConfigInit ==
  /\ RestIdle
  /\ files \in InitialFiles
  /\ overlay = DefaultConfig
  /\ inner = reload_all(files, DefaultConfig)
  /\ dirty = FALSE
  /\ rtKeys = {}
  /\ last = NoOp
  /\ nops = 0
  /\ MergeIdle
  /\ RegistryIdle
  /\ SchedulerIdle

\* Somebody edits, replaces or removes the first file of a scope directory
EditFile ==
  /\ nops < MaxOps
  /\ \E d \in Dirs, c \in {NoFile, Garbage} \cup {Yaml(doc) : doc \in Docs} :
       /\ files[d][FileNames[1]] # c
       /\ files' = [files EXCEPT ![d][FileNames[1]] = c]
       /\ last' = [op |-> "edit", scope |-> d, result |-> "ok"]
  /\ dirty' = TRUE
  /\ nops' = nops + 1
  /\ UNCHANGED <<overlay, inner, rtKeys, cfg, rules, depth, runVars, regVars, mrgVars, restVars>>

\* The watcher callback (yaml_config.rs 225-234)
WatchReload ==
  /\ dirty
  /\ inner' = reload_all(files, overlay)
  /\ dirty' = FALSE
  /\ last' = [op |-> "watch", scope |-> None, result |-> "ok"]
  /\ UNCHANGED <<files, overlay, rtKeys, nops, cfg, rules, depth, runVars, regVars, mrgVars, restVars>>

\* apply_runtime_overlay(patch) (yaml_config.rs 247-253); the caller builds the
\* patch from Config::default() and the settings of doc
ApplyRuntimeOverlay ==
  /\ nops < MaxOps
  /\ \E doc \in Docs \ {EmptyDoc} :
       /\ overlay' = merge(overlay, from_yaml(doc))
       /\ inner' = reload_all(files, merge(overlay, from_yaml(doc)))
       /\ rtKeys' = rtKeys \cup DOMAIN doc
  /\ last' = [op |-> "apply_runtime_overlay", scope |-> "Runtime", result |-> "ok"]
  /\ nops' = nops + 1
  /\ UNCHANGED <<files, dirty, cfg, rules, depth, runVars, regVars, mrgVars, restVars>>

\* write_patch_file(scope, "99-runtime.yaml", patch) (yaml_config.rs 256-271)
WritePatchFile ==
  /\ nops < MaxOps
  /\ \E scope \in Scopes, doc \in Docs \ {EmptyDoc} :
       LET dir == scope_dir(scope)
           text == to_yaml(from_yaml(doc))
       IN
       IF dir = None THEN
         /\ last' = [op |-> "write_patch_file", scope |-> scope, result |-> "err"]
         /\ UNCHANGED <<files, inner, dirty>>
       ELSE
         /\ files' = [files EXCEPT ![dir][FileNames[2]] = Yaml(text)]
         /\ inner' = reload_all([files EXCEPT ![dir][FileNames[2]] = Yaml(text)], overlay)
         /\ dirty' = TRUE
         /\ last' = [op |-> "write_patch_file", scope |-> scope, result |-> "ok"]
  /\ nops' = nops + 1
  /\ UNCHANGED <<overlay, rtKeys, cfg, rules, depth, runVars, regVars, mrgVars, restVars>>

ConfigNext ==
  \/ EditFile
  \/ WatchReload
  \/ ApplyRuntimeOverlay
  \/ WritePatchFile

ConfigSpec == ConfigInit /\ [][ConfigNext]_vars

\* ---------------------------------------------------- compact.rs, Compactor
CoreIdle == RegistryIdle /\ SchedulerIdle /\ ManagerIdle /\ MergeIdle

\* What cfg.get().compact can be: Config::default() has both flags set and
\* merge only ever sets them (layered_config.rs 224, 226), a threshold is
\* replaced by any value other than 0 (225, 228)
CompactConfigs ==
  {[DefaultCompact EXCEPT !.auto_min_interval_secs = s, !.max_files = m] :
     s \in {60, 120}, m \in 1..MaxKeep}

Stages == {"MidTask", "EndOfTask"}

\* The values of last_compact a caller passes: None, or the SystemTime it
\* took when the last compaction ended
LastCompacts ==
  {<< >>} \cup {<<t>> : t \in {NowSecs - 200, NowSecs - 120, NowSecs - 60, NowSecs + 60}}

CompactInit ==
  /\ CoreIdle
  /\ TodoIdle
  /\ LogIdle
  /\ MoreIdle
  /\ workspace \in [Paths -> FileInfos]
  /\ compactCfg \in CompactConfigs
  /\ cres = NoCompact

\* Compactor::manual_compact (compact.rs 136-162)
ManualCompact ==
  /\ \E include_globs \in GlobLists :
       LET r == manual_compact(workspace, compactCfg, include_globs)
       IN cres' = [NoCompact EXCEPT !.op = "manual", !.candidates = r.candidates,
                                    !.chosen = r.chosen]
  /\ UNCHANGED <<workspace, compactCfg, coreVars, todoVars, logVars, moreVars>>

\* Compactor::auto_compact (compact.rs 168-215): Err when gen_meta_prompt
\* returns Err (188), before the candidates are looked at
AutoCompact ==
  /\ \E stage \in Stages, meta_ok \in BOOLEAN :
       LET r == auto_compact(workspace, compactCfg)
       IN cres' = IF meta_ok
                    THEN [NoCompact EXCEPT !.op = "auto", !.stage = stage,
                                           !.candidates = r.candidates,
                                           !.chosen = r.chosen]
                    ELSE [NoCompact EXCEPT !.op = "auto", !.stage = stage, !.err = TRUE]
  /\ UNCHANGED <<workspace, compactCfg, coreVars, todoVars, logVars, moreVars>>

\* Compactor::should_autotrigger (compact.rs 218-228)
ShouldAutotrigger ==
  /\ \E last_compact \in LastCompacts, stage \in Stages :
       cres' = [NoCompact EXCEPT !.op = "trigger", !.last = last_compact, !.stage = stage,
                                 !.fire = should_autotrigger(compactCfg, last_compact, stage)]
  /\ UNCHANGED <<workspace, compactCfg, coreVars, todoVars, logVars, moreVars>>

CompactNext == ManualCompact \/ AutoCompact \/ ShouldAutotrigger

CompactSpec == CompactInit /\ [][CompactNext]_vars

\* ------------------------------------- todo.rs and todo_yaml.rs, TodoStore
TodoInit ==
  /\ CoreIdle
  /\ CompactorIdle
  /\ LogIdle
  /\ MoreIdle
  /\ items = << >>
  /\ yitems = << >>
  /\ clock \in ClockReadings
  /\ uuids = 0
  /\ todoFiles = {}
  /\ tres = NoTodoOp
  /\ tops = 0

\* The system clock is set: forward as time passes, back by an adjustment
ClockStep ==
  /\ tops < MaxTodoOps
  /\ \E now \in ClockReadings \ {clock} : clock' = now
  /\ tops' = tops + 1
  /\ UNCHANGED <<items, yitems, uuids, todoFiles, tres, coreVars, cmpVars, logVars, moreVars>>

\* TodoStore::add (todo.rs 109-118)
TodoAdd ==
  /\ tops < MaxTodoOps
  /\ \E title \in Titles :
       /\ items' = add(items, new_v4(uuids), title, clock)
       /\ tres' = [op |-> "add", id |-> new_v4(uuids), ok |-> TRUE]
  /\ uuids' = new_v4(uuids)
  /\ tops' = tops + 1
  /\ UNCHANGED <<yitems, clock, todoFiles, coreVars, cmpVars, logVars, moreVars>>

\* TodoStore::set_status (todo.rs 119-125)
TodoSetStatus ==
  /\ tops < MaxTodoOps
  /\ \E id \in 1..MaxTodoOps, status \in TodoStatuses :
       LET r == set_status(items, id, status, clock)
       IN /\ items' = r.items
          /\ tres' = [op |-> "set_status", id |-> id, ok |-> r.ok]
  /\ tops' = tops + 1
  /\ UNCHANGED <<yitems, clock, uuids, todoFiles, coreVars, cmpVars, logVars, moreVars>>

\* TodoStore::remove (todo.rs 126-131)
TodoRemove ==
  /\ tops < MaxTodoOps
  /\ \E id \in 1..MaxTodoOps :
       LET r == remove(items, id)
       IN /\ items' = r.items
          /\ tres' = [op |-> "remove", id |-> id, ok |-> r.ok]
  /\ tops' = tops + 1
  /\ UNCHANGED <<yitems, clock, uuids, todoFiles, coreVars, cmpVars, logVars, moreVars>>

\* TodoStore::add_and_persist (todo_yaml.rs 42-61): the item is pushed (53)
\* before the directory and the file are written (57, 59), whose errors are
\* returned by `?`
AddAndPersist ==
  /\ tops < MaxTodoOps
  /\ \E session_id \in SessionIds, task_number \in 1..2, title \in Titles, io_ok \in BOOLEAN :
       LET it == persisted(new_v4(uuids), session_id, task_number, title, clock)
       IN /\ yitems' = Append(yitems, it)
          /\ todoFiles' = IF io_ok THEN todoFiles \cup {per_item_path(it)} ELSE todoFiles
          /\ tres' = [op |-> "add_and_persist", id |-> it.id, ok |-> io_ok]
  /\ uuids' = new_v4(uuids)
  /\ tops' = tops + 1
  /\ UNCHANGED <<items, clock, coreVars, cmpVars, logVars, moreVars>>

TodoNext == ClockStep \/ TodoAdd \/ TodoSetStatus \/ TodoRemove \/ AddAndPersist

TodoSpec == TodoInit /\ [][TodoNext]_vars

\* ------------------------------------- session_logs.rs, SessionLogWriter
\* SessionLogWriter::new (41-63): session.json holds "[]" and session.jsonl
\* is empty; the writers of one session share the directory and the mode
LogInit ==
  /\ CoreIdle
  /\ CompactorIdle
  /\ TodoIdle
  /\ MoreIdle
  /\ jsonFile = << >>
  /\ jsonlFile = << >>
  /\ writeMode \in WriteModes
  /\ writers = [w \in WriterIds |-> NoAppend]
  /\ logged = << >>

\* The call has returned Ok
Returned_append(w) ==
  /\ writers' = [writers EXCEPT ![w].pc = "idle", ![w].ev = JNull, ![w].out = JNull,
                                ![w].arr = << >>]
  /\ logged' = Append(logged, writers[w].ev)

\* Number of calls of append made by the writers 1..k
RECURSIVE Appends(_)
Appends(k) == IF k = 0 THEN 0 ELSE writers[k].n + Appends(k - 1)

\* SessionLogWriter::append (65-68): the event is stamped and redacted
AppendCall(w) ==
  /\ writers[w].pc = "idle"
  /\ Appends(MaxWriters) < MaxAppends
  /\ \E ev \in SessionEvents :
       writers' = [writers EXCEPT ![w].pc = IF writeMode = "jsonl" THEN "jsonl_text"
                                                                   ELSE "json_read",
                                  ![w].ev = ev,
                                  ![w].out = redact_json(ev),
                                  ![w].n = @ + 1]
  /\ UNCHANGED <<jsonFile, jsonlFile, writeMode, logged, coreVars, cmpVars, todoVars, moreVars>>

\* append_json (79-80): the file is read and parsed
JsonRead(w) ==
  /\ writers[w].pc = "json_read"
  /\ writers' = [writers EXCEPT ![w].pc = "json_write", ![w].arr = jsonFile]
  /\ UNCHANGED <<jsonFile, jsonlFile, writeMode, logged, coreVars, cmpVars, todoVars, moreVars>>

\* append_json (81-83): the array with the event pushed replaces the file
JsonWrite(w) ==
  /\ writers[w].pc = "json_write"
  /\ jsonFile' = push(writers[w].arr, writers[w].out)
  /\ IF writeMode = "both"
       THEN /\ writers' = [writers EXCEPT ![w].pc = "jsonl_text"]
            /\ logged' = logged
       ELSE Returned_append(w)
  /\ UNCHANGED <<jsonlFile, writeMode, coreVars, cmpVars, todoVars, moreVars>>

\* append_jsonl (88-89): the file is opened for append and writeln! writes
\* the text of the event
JsonlText(w) ==
  /\ writers[w].pc = "jsonl_text"
  /\ jsonlFile' = Append(jsonlFile, writers[w].out)
  /\ writers' = [writers EXCEPT ![w].pc = "jsonl_newline"]
  /\ UNCHANGED <<jsonFile, writeMode, logged, coreVars, cmpVars, todoVars, moreVars>>

\* append_jsonl (89): writeln! writes the end of line, a write of its own on
\* the unbuffered File
JsonlNewline(w) ==
  /\ writers[w].pc = "jsonl_newline"
  /\ jsonlFile' = Append(jsonlFile, NewLine)
  /\ Returned_append(w)
  /\ UNCHANGED <<jsonFile, writeMode, coreVars, cmpVars, todoVars, moreVars>>

LogNext ==
  \E w \in WriterIds :
    AppendCall(w) \/ JsonRead(w) \/ JsonWrite(w) \/ JsonlText(w) \/ JsonlNewline(w)

LogSpec == LogInit /\ [][LogNext]_vars

\* ------------------------------------- hooks_yaml.rs, load_from_dirs
\* The registry is built from the rule files of the hook directories.

HookDirNames == {"sys_hooks", "ws_hooks"}

\* The entries a hook directory can hold, in the lexicographic order of
\* their names
EntryNames == <<"10-base.yaml", "20-site.yml", "30-bad.yaml", "README.md">>

\* p.extension()
extension(f) ==
  CASE f = "10-base.yaml" -> "yaml"
    [] f = "20-site.yml" -> "yml"
    [] f = "30-bad.yaml" -> "yaml"
    [] OTHER -> "md"

\* serde_yml::from_str::<Vec<HookRule>> of the text of a rule file: its
\* rules in the order of the file, << >> standing for the Err of a text that
\* does not parse (30-bad.yaml)
RuleFile(d, f) ==
  LET rule(n) == HookRule(n, {"pre_exec"}, << ExecAction("success") >>, FALSE, TRUE) IN
  CASE d = "sys_hooks" /\ f = "10-base.yaml" -> << rule("sys-base-1"), rule("sys-base-2") >>
    [] d = "sys_hooks" /\ f = "20-site.yml" -> << rule("sys-site-1") >>
    [] d = "ws_hooks" /\ f = "10-base.yaml" -> << rule("ws-base-1") >>
    [] d = "ws_hooks" /\ f = "20-site.yml" -> << rule("ws-site-1"), rule("ws-site-2") >>
    [] OTHER -> << >>

\* The orders in which fs::read_dir can yield the entries S of a directory:
\* the order is that of the filesystem, any one of them
read_dir(S) ==
  {e \in [1..Cardinality(S) -> S] : \A a, b \in 1..Cardinality(S) : e[a] = e[b] => a = b}

\* The inner loop of load_from_dirs (hooks_yaml.rs 59-67) over the entries es
\* of directory d from the k-th on: files with extension yaml or yml are read
\* and parsed, their rules appended; a parse error ends the call.
RECURSIVE load_entries(_, _, _, _)
load_entries(d, es, k, acc) ==
  IF k > Len(es) \/ acc.result = "err" THEN acc
  ELSE IF extension(es[k]) \notin {"yaml", "yml"} THEN load_entries(d, es, k + 1, acc)
  ELSE IF RuleFile(d, es[k]) = << >>
    THEN [acc EXCEPT !.order = Append(@, <<d, es[k]>>), !.result = "err"]
  ELSE load_entries(d, es, k + 1, [acc EXCEPT !.order = Append(@, <<d, es[k]>>),
                                              !.rules = @ \o RuleFile(d, es[k])])

\* The outer loop (57-68) over dirs from the k-th on: directories that do not
\* exist are passed over; enum gives the order read_dir yields per directory
RECURSIVE load_dirs(_, _, _, _, _)
load_dirs(dirs, fsys, enum, k, acc) ==
  IF k > Len(dirs) \/ acc.result = "err" THEN acc
  ELSE IF ~fsys[dirs[k]].exists THEN load_dirs(dirs, fsys, enum, k + 1, acc)
  ELSE load_dirs(dirs, fsys, enum, k + 1, load_entries(dirs[k], enum[dirs[k]], 1, acc))

load_from_dirs(dirs, fsys, enum) ==
  load_dirs(dirs, fsys, enum, 1, [rules |-> << >>, order |-> << >>, result |-> "ok"])

LoadInit ==
  /\ cfg \in Configs
  /\ rules = << >>
  /\ depth = 0
  /\ calls = [c \in CallIds |-> NoEmit]
  /\ SchedulerIdle
  /\ ManagerIdle
  /\ MergeIdle
  /\ CompactorIdle /\ TodoIdle /\ LogIdle
  /\ hookDirs \in {<<"sys_hooks">>, <<"sys_hooks", "ws_hooks">>, <<"ws_hooks", "sys_hooks">>}
  /\ hookFiles \in [HookDirNames ->
                       [exists : BOOLEAN,
                        entries : SUBSET {EntryNames[k] : k \in 1..Len(EntryNames)}]]
  /\ \A d \in HookDirNames : ~hookFiles[d].exists => hookFiles[d].entries = {}
  /\ ldres = NoLoad
  /\ TraitIdle /\ RunnerIdle /\ WatchIdle /\ LayeredIdle

\* HookRegistry::load_from_dirs(cfg, dirs) (hooks_yaml.rs 55-71): on Ok the
\* registry holds the rules read, its counter at 0
LoadFromDirs ==
  /\ \E enum \in [HookDirNames -> UNION {read_dir(hookFiles[d].entries) : d \in HookDirNames}] :
       /\ \A d \in HookDirNames : enum[d] \in read_dir(hookFiles[d].entries)
       /\ LET got == load_from_dirs(hookDirs, hookFiles, enum) IN
          /\ ldres' = [op |-> "load_from_dirs", order |-> got.order, result |-> got.result]
          /\ rules' = IF got.result = "ok" THEN got.rules ELSE rules
  /\ depth' = 0
  /\ UNCHANGED <<hookDirs, hookFiles, cfg, runVars, regVars, mgrVars, mrgVars,
                 cmpVars, todoVars, logVars, trVars, rnVars, wtVars, lyVars>>

LoadNext == LoadFromDirs

LoadSpec == LoadInit /\ [][LoadNext]_vars

\* --------------------------------------------- hooks.rs, HookRegistry
\* The registry of trait objects: hooks are registered one by one and emit
\* asks each of them in turn.

\* The events of hooks.rs by their variant
TraitEvents ==
  {"PreToolUse", "PostToolUse", "PreExec", "PostExec", "PreMcp", "PostMcp",
   "TaskStart", "TaskEnd", "Git"}

\* A BTreeMap<String, String> is the function from its keys to their values
EmptyEnv == [k \in {} |-> ""]

\* What Hook::on_event returns: Ok of a HookDecision (hooks.rs 173-177) or Err
TContinue == [decision |-> "Continue", reason |-> "", set |-> EmptyEnv, remove |-> << >>]
TDeny(r) == [decision |-> "Deny", reason |-> r, set |-> EmptyEnv, remove |-> << >>]
ModifyEnv(sets, removes) ==
  [decision |-> "ModifyEnv", reason |-> "", set |-> sets, remove |-> removes]
TErr == [decision |-> "Err", reason |-> "", set |-> EmptyEnv, remove |-> << >>]

\* A hook: the events it has something to say on, and what it says
TraitHook(n, on, says) == [name |-> n, on |-> on, says |-> says]

\* The hooks that get registered: AuditLogHook, whose log write succeeds or
\* fails (hooks.rs 222-230), and hooks that veto or change the environment
TraitHooks ==
  { TraitHook("audit_log", {}, TContinue),
    TraitHook("audit_log_unwritable", TraitEvents, TErr),
    TraitHook("veto", {"PreToolUse", "PreExec", "PreMcp"}, TDeny("vetoed")),
    TraitHook("env_a", TraitEvents, ModifyEnv("K" :> "a", << "X" >>)),
    TraitHook("env_b", TraitEvents, ModifyEnv("K" :> "b" @@ "L" :> "b", << "Y", "X" >>)),
    TraitHook("env_none", TraitEvents, ModifyEnv(EmptyEnv, << >>)) }

\* h.on_event(ctx, event)
on_event(h, ev) == IF ev \in h.on THEN h.says ELSE TContinue

\* BTreeMap::extend: the entries of b are inserted into a
extend_keep(a, b) ==
  [k \in (DOMAIN a) \cup (DOMAIN b) |-> IF k \in DOMAIN a THEN a[k] ELSE b[k]]

extend(a, b) ==
  [k \in (DOMAIN a) \cup (DOMAIN b) |-> IF k \in DOMAIN b THEN b[k] ELSE a[k]]

\* The loop of emit (hooks.rs 197-211) from the k-th hook on, with the
\* accumulators and the hooks called so far
RECURSIVE emit_hooks_from(_, _, _, _, _, _)
emit_hooks_from(hooks, ev, k, sets, removes, called) ==
  IF k > Len(hooks)
    THEN [called |-> called,
          out |-> IF sets = EmptyEnv /\ removes = << >> THEN TContinue
                                                        ELSE ModifyEnv(sets, removes)]
  ELSE LET d == on_event(hooks[k], ev) IN
    CASE d.decision = "Err" -> [called |-> Append(called, k), out |-> TErr]
      [] d.decision = "Deny" -> [called |-> Append(called, k), out |-> TDeny(d.reason)]
      [] d.decision = "ModifyEnv" ->
           emit_hooks_from(hooks, ev, k + 1, extend(sets, d.set), removes \o d.remove,
                           Append(called, k))
      [] OTHER -> emit_hooks_from(hooks, ev, k + 1, sets, removes, Append(called, k))

\* HookRegistry::emit of hooks.rs (193-212)
emit_hooks(hooks, ev) == emit_hooks_from(hooks, ev, 1, EmptyEnv, << >>, << >>)

RegInit ==
  /\ CoreIdle
  /\ CompactorIdle /\ TodoIdle /\ LogIdle
  /\ LoaderIdle /\ RunnerIdle /\ WatchIdle /\ LayeredIdle
  /\ thooks = << >>
  /\ eres = NoHookCall

\* HookRegistry::register (hooks.rs 191)
Register ==
  /\ Len(thooks) < MaxHooks
  /\ \E h \in TraitHooks : thooks' = Append(thooks, h)
  /\ UNCHANGED <<eres, coreVars, cmpVars, todoVars, logVars, ldVars, rnVars, wtVars, lyVars>>

\* HookRegistry::emit (hooks.rs 193-212)
EmitHooks ==
  /\ \E ev \in {"PreExec", "PostExec", "TaskEnd"} :
       LET got == emit_hooks(thooks, ev) IN
       eres' = [op |-> "emit", ev |-> ev, hooks |-> thooks, called |-> got.called,
                out |-> got.out]
  /\ UNCHANGED <<thooks, coreVars, cmpVars, todoVars, logVars, ldVars, rnVars, wtVars, lyVars>>

RegNext == Register \/ EmitHooks

RegSpec == RegInit /\ [][RegNext]_vars

\* ------------------------------------------------- task.rs, TaskRunner
\* TaskRunner::run over one task, with the hook registry of hooks.rs.  run is
\* one future (a SubAgent step awaits the run of its nested runner), so the
\* steps are taken one after the other; each action below is one arm of the
\* match of run, with the results of its bridges drawn.

\* TaskStep
ChatStep == [type |-> "chat", agent |-> None, steps |-> << >>]
ExecStep == [type |-> "exec", agent |-> None, steps |-> << >>]
McpCallStep == [type |-> "mcp_call", agent |-> None, steps |-> << >>]
GitStep == [type |-> "git", agent |-> None, steps |-> << >>]
SubAgentStep(agent, steps) == [type |-> "sub_agent", agent |-> agent, steps |-> steps]

\* The tasks run
RunnerTasks ==
  { << ExecStep, ChatStep >>,
    << ChatStep, ExecStep >>,
    << McpCallStep, GitStep >>,
    << SubAgentStep("reviewer", << ChatStep >>), ChatStep >>,
    << GitStep, SubAgentStep("tester", << ExecStep, ChatStep >>), ExecStep >>,
    << SubAgentStep("reviewer", << SubAgentStep("tester", << ExecStep >>), ChatStep >>),
       McpCallStep >> }

\* The registries the runner is given
RunnerRegistries ==
  { << >>,
    << TraitHook("veto", {"PreToolUse", "PreExec", "PreMcp"}, TDeny("vetoed")) >>,
    << TraitHook("env_a", TraitEvents, ModifyEnv("K" :> "a", << "X" >>)),
       TraitHook("veto_chat", {"PreToolUse"}, TDeny("no chat")) >>,
    << TraitHook("veto_mcp", {"PreMcp"}, TDeny("no mcp")) >>,
    << TraitHook("audit_log_unwritable", {"PostExec", "TaskEnd"}, TErr) >> }

RunnerInit ==
  /\ CoreIdle
  /\ CompactorIdle /\ TodoIdle /\ LogIdle
  /\ LoaderIdle /\ WatchIdle /\ LayeredIdle
  /\ thooks \in RunnerRegistries
  /\ eres = NoHookCall
  /\ rtask \in RunnerTasks
  /\ frames = << >>
  /\ profile = "main"
  /\ rlog = << >>
  /\ rres = "idle"

\* The runner whose steps are being taken and its next step
Top == frames[Len(frames)]
Step == Head(Top.steps)

\* self.hooks.emit(&self.ctx, &event).await, and its entry in the log
hook_emit(ev) == emit_hooks(thooks, ev).out
Emitted(ev) ==
  [kind |-> "emit", what |-> ev, out |-> hook_emit(ev).decision, profile |-> profile,
   agent |-> IF frames = << >> THEN profile ELSE Top.agent]

\* A call of a bridge closure and what it returned
Bridged(bridge, res) ==
  [kind |-> "bridge", what |-> bridge, out |-> res, profile |-> profile, agent |-> Top.agent]

\* `?` or bail! in a runner: the error goes up through every enclosing
\* `nested_runner.run().await?` (task.rs 76)
Bail(entries) ==
  /\ rlog' = rlog \o entries
  /\ frames' = << >>
  /\ rres' = "err"
  /\ profile' = profile

\* The step is done; failed is `status != 0` (task.rs 54, 65)
Advance(entries, failed) ==
  /\ rlog' = rlog \o entries
  /\ frames' = [frames EXCEPT ![Len(frames)] =
                  [@ EXCEPT !.steps = Tail(@), !.ok = @ /\ ~failed]]
  /\ UNCHANGED <<rres, profile>>

\* run is called on the outermost runner: TaskStart is emitted, its result
\* dropped (task.rs 39-40)
RunStart ==
  /\ rres = "idle"
  /\ rlog' = << Emitted("TaskStart") >>
  /\ frames' = << [agent |-> profile, steps |-> rtask, ok |-> TRUE] >>
  /\ rres' = "running"
  /\ UNCHANGED <<rtask, profile, trVars, coreVars, cmpVars, todoVars, logVars, ldVars, wtVars, lyVars>>

\* TaskStep::Chat (task.rs 43-47): the decision of the pre-event is bound to
\* `_`; only an Err of emit ends the step
StepChat ==
  /\ rres = "running" /\ Top.steps # << >> /\ Step.type = "chat"
  /\ \E res \in {"ok", "err"} :
       IF hook_emit("PreToolUse").decision = "Err" THEN Bail(<< Emitted("PreToolUse") >>)
       ELSE IF res = "err" THEN Bail(<< Emitted("PreToolUse"), Bridged("do_chat", res) >>)
       ELSE IF hook_emit("PostToolUse").decision = "Err"
         THEN Bail(<< Emitted("PreToolUse"), Bridged("do_chat", res), Emitted("PostToolUse") >>)
       ELSE Advance(<< Emitted("PreToolUse"), Bridged("do_chat", res), Emitted("PostToolUse") >>,
                    FALSE)
  /\ UNCHANGED <<rtask, trVars, coreVars, cmpVars, todoVars, logVars, ldVars, wtVars, lyVars>>

\* TaskStep::Exec (task.rs 48-55)
StepExec ==
  /\ rres = "running" /\ Top.steps # << >> /\ Step.type = "exec"
  /\ \E res \in {"exit 0", "exit 1", "err"} :
       IF hook_emit("PreExec").decision \in {"Err", "Deny"} THEN Bail(<< Emitted("PreExec") >>)
       ELSE IF res = "err" THEN Bail(<< Emitted("PreExec"), Bridged("do_exec", res) >>)
       ELSE IF hook_emit("PostExec").decision = "Err"
         THEN Bail(<< Emitted("PreExec"), Bridged("do_exec", res), Emitted("PostExec") >>)
       ELSE Advance(<< Emitted("PreExec"), Bridged("do_exec", res), Emitted("PostExec") >>,
                    res # "exit 0")
  /\ UNCHANGED <<rtask, trVars, coreVars, cmpVars, todoVars, logVars, ldVars, wtVars, lyVars>>

\* TaskStep::McpCall (task.rs 56-62)
StepMcpCall ==
  /\ rres = "running" /\ Top.steps # << >> /\ Step.type = "mcp_call"
  /\ \E res \in {"ok", "err"} :
       IF hook_emit("PreMcp").decision \in {"Err", "Deny"} THEN Bail(<< Emitted("PreMcp") >>)
       ELSE IF res = "err" THEN Bail(<< Emitted("PreMcp"), Bridged("do_mcp", res) >>)
       ELSE IF hook_emit("PostMcp").decision = "Err"
         THEN Bail(<< Emitted("PreMcp"), Bridged("do_mcp", res), Emitted("PostMcp") >>)
       ELSE Advance(<< Emitted("PreMcp"), Bridged("do_mcp", res), Emitted("PostMcp") >>, FALSE)
  /\ UNCHANGED <<rtask, trVars, coreVars, cmpVars, todoVars, logVars, ldVars, wtVars, lyVars>>

\* TaskStep::Git (task.rs 63-66)
StepGit ==
  /\ rres = "running" /\ Top.steps # << >> /\ Step.type = "git"
  /\ \E res \in {"exit 0", "exit 1", "err"} :
       IF res = "err" THEN Bail(<< Bridged("do_exec", res) >>)
       ELSE Advance(<< Bridged("do_exec", res) >>, res # "exit 0")
  /\ UNCHANGED <<rtask, trVars, coreVars, cmpVars, todoVars, logVars, ldVars, wtVars, lyVars>>

\* with_agent(agent): the closure switches the profile in effect
with_agent(current, agent) == agent

\* TaskStep::SubAgent up to the await of the nested run (task.rs 67-76, 39):
\* with_agent, then the nested runner with the steps of the step; the nested
\* run emits its TaskStart
StepSubAgent ==
  /\ rres = "running" /\ Top.steps # << >> /\ Step.type = "sub_agent"
  /\ \E res \in {"ok", "err"} :
       IF res = "err" THEN Bail(<< Bridged("with_agent", res) >>)
       ELSE
         /\ profile' = with_agent(profile, Step.agent)
         /\ frames' = Append(frames, [agent |-> Step.agent, steps |-> Step.steps, ok |-> TRUE])
         /\ rlog' = rlog \o << Bridged("with_agent", res),
                                [kind |-> "emit", what |-> "TaskStart",
                                 out |-> hook_emit("TaskStart").decision,
                                 profile |-> with_agent(profile, Step.agent),
                                 agent |-> Step.agent] >>
         /\ rres' = rres
  /\ UNCHANGED <<rtask, trVars, coreVars, cmpVars, todoVars, logVars, ldVars, wtVars, lyVars>>

\* The steps of a runner are done (task.rs 80-81): TaskEnd is emitted, its
\* result dropped, and run returns Ok, or Err when a step had a non-zero
\* status.  The caller of a nested run goes on with its next step (76-78),
\* nothing being done about the profile.
RunReturn ==
  /\ rres = "running" /\ Top.steps = << >>
  /\ IF ~Top.ok THEN Bail(<< Emitted("TaskEnd") >>)
     ELSE IF Len(frames) = 1
       THEN /\ rlog' = Append(rlog, Emitted("TaskEnd"))
            /\ frames' = << >>
            /\ rres' = "ok"
            /\ profile' = profile
     ELSE /\ rlog' = Append(rlog, Emitted("TaskEnd"))
          /\ frames' = [k \in 1..(Len(frames) - 1) |->
                          IF k = Len(frames) - 1
                            THEN [frames[k] EXCEPT !.steps = Tail(@)] ELSE frames[k]]
          /\ UNCHANGED <<rres, profile>>
  /\ UNCHANGED <<rtask, trVars, coreVars, cmpVars, todoVars, logVars, ldVars, wtVars, lyVars>>

RunnerNext ==
  \/ RunStart
  \/ StepChat
  \/ StepExec
  \/ StepMcpCall
  \/ StepGit
  \/ StepSubAgent
  \/ RunReturn

RunnerSpec == RunnerInit /\ [][RunnerNext]_vars

\* ----------------------- yaml_config.rs, ConfigManager and its watcher
\* The manager with the callback of its watcher running in the watcher's own
\* thread, beside a caller of apply_runtime_overlay.  A reload reads the
\* directories, takes the read lock of runtime_overlay, takes the write lock
\* of inner and sends on tx: four steps, each atomic, with the steps of the
\* other thread in between.

\* The files load finds: layers that set shell.approval among them
WatchFiles ==
  { [d \in Dirs |->
       [f \in {FileNames[k] : k \in 1..Len(FileNames)} |->
          IF f # FileNames[1] THEN NoFile
          ELSE IF d = "system_dir" THEN sys
          ELSE IF d = "user_dir" THEN usr
          ELSE ws]] :
      sys \in {NoFile, Yaml("shell.approval" :> "on_failure")},
      usr \in {NoFile, Yaml("shell.approval" :> "never"), Yaml("history.persist" :> <<"all">>)},
      ws \in {NoFile, Yaml("shell.approval" :> "never"), Yaml("compact.max_files" :> 50)} }

\* The patches callers lay over
WatchPatches ==
  { ("history.persist" :> <<"session">>),
    ("shell.approval" :> "unless_trusted") }

\* The merge of the three directories (yaml_config.rs 206-209, 227-230)
read_layers(fs) ==
  merge(merge(merge(DefaultConfig, read_yaml_dir(fs["system_dir"])),
              read_yaml_dir(fs["user_dir"])),
        read_yaml_dir(fs["workspace_dir"]))

\* ConfigManager::load: reload_all has stored and sent the first snapshot
WatchInit ==
  /\ CompactorIdle /\ TodoIdle /\ LogIdle
  /\ LoaderIdle /\ TraitIdle /\ RunnerIdle /\ LayeredIdle
  /\ files \in WatchFiles
  /\ overlay = DefaultConfig
  /\ inner = reload_all(files, DefaultConfig)
  /\ bcast = << reload_all(files, DefaultConfig) >>
  /\ reloads = [t \in ReloadThreads |-> NoReload]
  /\ dirty = FALSE
  /\ rtKeys = {}
  /\ last = NoOp
  /\ nops = 0
  /\ MergeIdle
  /\ RegistryIdle
  /\ SchedulerIdle

\* The watcher's thread calls the callback for a file event and the callback
\* reads the directories (yaml_config.rs 225-230)
WatcherBegin ==
  /\ dirty
  /\ reloads["watcher"].pc = "idle"
  /\ reloads' = [reloads EXCEPT !["watcher"] = [pc |-> "overlay", merged |-> read_layers(files)]]
  /\ dirty' = FALSE
  /\ UNCHANGED <<files, overlay, inner, rtKeys, last, nops, bcast, cfg, rules, depth,
                 runVars, regVars, mrgVars, cmpVars, todoVars, logVars, ldVars, trVars, rnVars,
                 lyVars>>

\* apply_runtime_overlay(patch) up to the call of reload_all (247-252): the
\* patch is merged into runtime_overlay under its write lock
ApplyBegin ==
  /\ nops < MaxOps
  /\ reloads["caller"].pc = "idle"
  /\ \E doc \in WatchPatches :
       /\ overlay' = merge(overlay, from_yaml(doc))
       /\ rtKeys' = rtKeys \cup DOMAIN doc
  /\ reloads' = [reloads EXCEPT !["caller"] = [pc |-> "layers", merged |-> DefaultConfig]]
  /\ nops' = nops + 1
  /\ UNCHANGED <<files, inner, dirty, last, bcast, cfg, rules, depth,
                 runVars, regVars, mrgVars, cmpVars, todoVars, logVars, ldVars, trVars, rnVars,
                 lyVars>>

\* reload_all reads the directories (206-209)
ReloadLayers ==
  /\ reloads["caller"].pc = "layers"
  /\ reloads' = [reloads EXCEPT !["caller"] = [pc |-> "overlay", merged |-> read_layers(files)]]
  /\ UNCHANGED <<files, overlay, inner, dirty, rtKeys, last, nops, bcast, cfg, rules, depth,
                 runVars, regVars, mrgVars, cmpVars, todoVars, logVars, ldVars, trVars, rnVars,
                 lyVars>>

\* `merge(&mut merged, &runtime.read().clone())` (211-212, 231)
ReloadOverlay(t) ==
  /\ reloads[t].pc = "overlay"
  /\ reloads' = [reloads EXCEPT ![t] = [pc |-> "store", merged |-> merge(@.merged, overlay)]]
  /\ UNCHANGED <<files, overlay, inner, dirty, rtKeys, last, nops, bcast, cfg, rules, depth,
                 runVars, regVars, mrgVars, cmpVars, todoVars, logVars, ldVars, trVars, rnVars,
                 lyVars>>

\* `*inner.write() = merged.clone()` (213, 232)
ReloadStore(t) ==
  /\ reloads[t].pc = "store"
  /\ inner' = reloads[t].merged
  /\ reloads' = [reloads EXCEPT ![t].pc = "send"]
  /\ UNCHANGED <<files, overlay, dirty, rtKeys, last, nops, bcast, cfg, rules, depth,
                 runVars, regVars, mrgVars, cmpVars, todoVars, logVars, ldVars, trVars, rnVars,
                 lyVars>>

\* `tx.send(merged)` (214, 233), after which the reload is over
ReloadSend(t) ==
  /\ reloads[t].pc = "send"
  /\ bcast' = << reloads[t].merged >>
  /\ reloads' = [reloads EXCEPT ![t] = NoReload]
  /\ last' = [op |-> (IF t = "watcher" THEN "watch" ELSE "apply_runtime_overlay"),
              scope |-> None, result |-> "ok"]
  /\ UNCHANGED <<files, overlay, inner, dirty, rtKeys, nops, cfg, rules, depth,
                 runVars, regVars, mrgVars, cmpVars, todoVars, logVars, ldVars, trVars, rnVars,
                 lyVars>>

WatchNext ==
  \/ EditFile
  \/ WatcherBegin
  \/ ApplyBegin
  \/ ReloadLayers
  \/ \E t \in ReloadThreads : ReloadOverlay(t)
  \/ \E t \in ReloadThreads : ReloadStore(t)
  \/ \E t \in ReloadThreads : ReloadSend(t)

WatchSpec == WatchInit /\ [][WatchNext]_vars

\* ------------------------------------ layered_config.rs, ConfigManager
\* The TOML store: one config.toml per persistent scope, a runtime overlay,
\* the watcher, the autocompact builtin of slash.rs and pick_model.  Of
\* Config the model keeps models.default, models.overrides and compact.

\* Config::default() (layered_config.rs 11-27, 129-140)
LayeredDefault ==
  [models |-> [default |-> ModelTarget("", None),
               overrides |-> [k \in {} |-> ModelTarget("", None)]],
   compact |-> [auto_enable |-> TRUE, auto_on_task_end |-> TRUE,
                auto_min_interval_secs |-> 120, max_files |-> 24]]

\* merge of layered_config.rs (193-246): a after the call
layered_merge(a, b) ==
  [models |-> [default |-> IF b.models.default.name # "" THEN b.models.default
                                                        ELSE a.models.default,
               overrides |-> ov_map(a.models.overrides, b.models.overrides)],
   compact |-> [auto_enable |-> a.compact.auto_enable \/ b.compact.auto_enable,
                auto_on_task_end |-> a.compact.auto_on_task_end \/ b.compact.auto_on_task_end,
                auto_min_interval_secs |-> ov_threshold(a.compact.auto_min_interval_secs,
                                                        b.compact.auto_min_interval_secs),
                max_files |-> ov_threshold(a.compact.max_files, b.compact.max_files)]]

\* toml::from_str::<PartialConfig>: the settings the text does not name come
\* from Default (`#[serde(default)]`)
from_toml(doc) ==
  LET d == LayeredDefault IN
  [models |-> [default |-> ModelTarget(Setting(doc, "models.default.name", d.models.default.name),
                                       None),
               overrides |-> Setting(doc, "models.overrides", d.models.overrides)],
   compact |-> [auto_enable |-> Setting(doc, "compact.auto_enable", d.compact.auto_enable),
                auto_on_task_end |-> Setting(doc, "compact.auto_on_task_end",
                                             d.compact.auto_on_task_end),
                auto_min_interval_secs |-> Setting(doc, "compact.auto_min_interval_secs",
                                                   d.compact.auto_min_interval_secs),
                max_files |-> Setting(doc, "compact.max_files", d.compact.max_files)]]

\* merged after `if let Some(c) = Self::read_file(path) { merge(&mut merged, &c); }`
\* (layered_config.rs 287-291, 295-297)
merge_file(merged, f) == IF f.kind = "yaml" THEN layered_merge(merged, from_toml(f.doc)) ELSE merged

\* reload_all and the watcher callback of layered_config.rs (293-303,
\* 313-323): the snapshot they store
layered_reload_all(fs, rt) ==
  layered_merge(merge_file(merge_file(merge_file(LayeredDefault, fs["system"]), fs["user"]),
                           fs["workspace"]),
                rt)

\* ConfigManager::pick_model of layered_config.rs (361-375)
layered_pick_model(c, role) ==
  LET key == CASE role = "Chat" -> << >>
               [] role = "Title" -> << "title" >>
               [] role = "SessionName" -> << "session_name" >>
               [] role = "Compact" -> << "compact" >>
               [] role = "MetaPrompt" -> << "meta_prompt" >>
               [] role = "TaskStatus" -> << "task_status" >>
  IN IF key # << >> /\ key[1] \in DOMAIN c.models.overrides
       THEN c.models.overrides[key[1]]
       ELSE c.models.default

ModelRoles == {"Chat", "Title", "SessionName", "Compact", "MetaPrompt", "TaskStatus"}

\* What a config.toml holds
LayeredDocs ==
  { ("compact.auto_enable" :> FALSE),
    ("compact.auto_enable" :> FALSE
       @@ "models.overrides" :> [k \in {"chat"} |-> ModelTarget("fast", None)]),
    ("models.default.name" :> "A"
       @@ "models.overrides" :> [k \in {"compact"} |-> ModelTarget("C", None)]) }

LayeredScopes == {"system", "user", "workspace"}

\* ConfigManager::load of layered_config.rs (272-285)
LayeredInit ==
  /\ CoreIdle
  /\ CompactorIdle /\ TodoIdle /\ LogIdle
  /\ LoaderIdle /\ TraitIdle /\ RunnerIdle /\ WatchIdle
  /\ lfiles \in [LayeredScopes -> {NoFile} \cup {Yaml(doc) : doc \in LayeredDocs}]
  /\ ldirty = FALSE
  /\ loverlay = LayeredDefault
  /\ linner = layered_reload_all(lfiles, LayeredDefault)
  /\ lres = NoLayeredOp
  /\ lops = 0

\* Somebody edits, replaces or removes a config.toml
LayeredEdit ==
  /\ lops < MaxOps
  /\ \E sc \in LayeredScopes, c \in {NoFile, Garbage} \cup {Yaml(doc) : doc \in LayeredDocs} :
       /\ lfiles[sc] # c
       /\ lfiles' = [lfiles EXCEPT ![sc] = c]
       /\ lres' = [NoLayeredOp EXCEPT !.op = "edit", !.arg = sc]
  /\ ldirty' = TRUE
  /\ lops' = lops + 1
  /\ UNCHANGED <<loverlay, linner, coreVars, cmpVars, todoVars, logVars,
                 ldVars, trVars, rnVars, wtVars>>

\* The watcher callback of layered_config.rs (313-323)
LayeredWatch ==
  /\ ldirty
  /\ linner' = layered_reload_all(lfiles, loverlay)
  /\ ldirty' = FALSE
  /\ lres' = [NoLayeredOp EXCEPT !.op = "watch"]
  /\ UNCHANGED <<lfiles, loverlay, lops, coreVars, cmpVars, todoVars, logVars,
                 ldVars, trVars, rnVars, wtVars>>

\* The patch the autocompact builtin builds (slash.rs 176-181): << >> for an
\* argument that is neither on nor off
autocompact_patch(arg) ==
  CASE arg = "on" -> << [LayeredDefault EXCEPT !.compact.auto_enable = TRUE] >>
    [] arg = "off" -> << [LayeredDefault EXCEPT !.compact.auto_enable = FALSE] >>
    [] OTHER -> << >>

\* dispatch_builtin("autocompact", arg) (slash.rs 175-184) with
\* apply_runtime_overlay (layered_config.rs 334-340)
DispatchAutocompact ==
  /\ lops < MaxOps
  /\ \E arg \in {"on", "off", "status"} :
       LET patch == autocompact_patch(arg) IN
       IF patch = << >> THEN
         /\ lres' = [NoLayeredOp EXCEPT !.op = "autocompact", !.arg = arg, !.result = "err"]
         /\ UNCHANGED <<loverlay, linner>>
       ELSE
         /\ loverlay' = layered_merge(loverlay, patch[1])
         /\ linner' = layered_reload_all(lfiles, layered_merge(loverlay, patch[1]))
         /\ lres' = [NoLayeredOp EXCEPT !.op = "autocompact", !.arg = arg, !.result = "ok"]
  /\ lops' = lops + 1
  /\ UNCHANGED <<lfiles, ldirty, coreVars, cmpVars, todoVars, logVars,
                 ldVars, trVars, rnVars, wtVars>>

\* pick_model(role) on the snapshot, by the manager of layered_config.rs and,
\* for the same models.default and models.overrides, by that of yaml_config.rs
PickModel ==
  /\ lops < MaxOps
  /\ \E role \in ModelRoles :
       lres' = [NoLayeredOp EXCEPT !.op = "pick_model", !.arg = role, !.result = "ok",
                                   !.target = layered_pick_model(linner, role),
                                   !.yaml_target = pick_model(linner, role)]
  /\ lops' = lops + 1
  /\ UNCHANGED <<lfiles, ldirty, loverlay, linner, coreVars, cmpVars, todoVars, logVars,
                 ldVars, trVars, rnVars, wtVars>>

LayeredNext ==
  \/ LayeredEdit
  \/ LayeredWatch
  \/ DispatchAutocompact
  \/ PickModel

LayeredSpec == LayeredInit /\ [][LayeredNext]_vars

\* ------------------------------------------------------------ properties
\* The hook events the per-step protocol names for a step variant
PreTag(k) ==
  CASE k = "chat" -> "pre_tool_use"
    [] k \in {"exec", "git"} -> "pre_exec"
    [] k = "mcp_call" -> "pre_mcp"

PostTag(k) ==
  CASE k = "chat" -> "post_tool_use"
    [] k \in {"exec", "git"} -> "post_exec"
    [] k = "mcp_call" -> "post_mcp"

\* HookRegistry::emit: the decision a caller gets for an event of tag ty
emit(rs, d, limit, ty) == IF d >= limit THEN Continue(0) ELSE emit_inner(rs, ty)

Returned == runPc \in {"ok", "err"}
\* run has left the set it entered last
SetLeft == i >= 1 /\ runPc \in {"summary", "loop", "ok", "err"}
TaskLeft(t) == tasks[t].pc \in {"ret_ok", "ret_err"}
OnePair(c) == c.start = 1 /\ c.end = 1

\* C1: once run has returned, the UI stream holds exactly one TaskSetStart and
\* one TaskSetEnd for every set of the plan, and once run has left a set the
\* stream holds exactly one TaskStart and one TaskEnd for every task of it.
C1_MatchedPairs ==
  /\ Returned => \A s \in 1..nSets : OnePair(ui.sets[s])
  /\ SetLeft => \A t \in 1..set.n : OnePair(ui.tasks[t])

\* C2: for every step the hook registry is given the pre-event before the
\* bridge is called and the post-event after the bridge has returned.
C2_PreBridgePost ==
  \A t \in TaskIds :
    LET L == tasks[t].log
        k == tasks[t].kind
    IN \A j \in 1..Len(L) :
         /\ L[j].e = "call" => \E h \in 1..(j - 1) : L[h] = EmitEntry(PreTag(k))
         /\ (L[j].e = "ret" /\ tasks[t].pc = "loop")
              => \E h \in (j + 1)..Len(L) : L[h] = EmitEntry(PostTag(k))

\* C3: a step whose pre-event the hook registry answers with Deny does not
\* call its bridge.
C3_DenySkipsBridge ==
  [][\A t \in TaskIds :
       (tasks[t].pc = "loop" /\ tasks'[t].pc = "await")
         => emit(rules, depth, recursion_limit(cfg), PreTag(tasks'[t].kind)).decision # "Deny"]_vars

\* C4: an error of the chat or mcp bridge aborts only the step: the task goes
\* on as not-ok, runs its remaining steps and ends with TaskEnd(ok=false).
C4_BridgeErrorAbortsStepOnly ==
  \A t \in TaskIds :
    tasks[t].failed \in {"chat", "mcp"}
      => /\ tasks[t].pc # "ret_err"
         /\ ~tasks[t].ok
         /\ TaskLeft(t) => (~tasks[t].unrun /\ ui.tasks[t].end = 1 /\ ~ui.tasks[t].ok)

\* C5: after a non-zero exit of an Exec or Git step the task is not-ok, is
\* not aborted (every later step runs) and ends with TaskEnd(ok=false); a task
\* whose bridges all succeeded with exit 0 ends with TaskEnd(ok=true).
C5_NonZeroExit ==
  \A t \in TaskIds :
    /\ tasks[t].nonzero
         => /\ tasks[t].pc # "ret_err"
            /\ TaskLeft(t) => (~tasks[t].unrun /\ ui.tasks[t].end = 1 /\ ~ui.tasks[t].ok)
    /\ (tasks[t].pc = "ret_ok" /\ ~tasks[t].nonzero /\ tasks[t].failed = None)
         => (ui.tasks[t].end = 1 /\ ui.tasks[t].ok)

\* C6: when run has left a sequential set, every task of the set was started
\* and TaskSetEnd carries the conjunction of the outcomes of all its tasks.
C6_SequentialRunsAll ==
  (SetLeft /\ set.mode = "sequential")
    => /\ \A t \in 1..set.n : ui.tasks[t].start = 1
       /\ ui.sets[i].end = 1
       /\ ui.ok = (\A t \in 1..set.n : tasks[t].pc = "ret_ok" /\ tasks[t].ok)

\* C7: every task event is sent for the set opened last, after its TaskSetStart
\* and before its TaskSetEnd; TaskStart of a task comes first and once,
\* TaskProgress only between TaskStart and TaskEnd of the task, TaskEnd after
\* TaskStart and once; TaskSetStart and TaskSetEnd come once, in this order.
C7_UiOrder ==
  \A j \in 1..Len(sent) :
    LET e == sent[j] IN
    /\ e.set = ui.cur
    /\ e.type = "TaskSetStart" => (ui.sets[e.set].start = 1 /\ ui.sets[e.set].end = 0)
    /\ e.type = "TaskSetEnd" => (ui.sets[e.set].start = 1 /\ ui.sets[e.set].end = 1)
    /\ e.type \in {"TaskStart", "TaskProgress", "TaskEnd"}
         => (ui.sets[e.set].start = 1 /\ ui.sets[e.set].end = 0)
    /\ e.type = "TaskStart" => (ui.tasks[e.task].start = 1 /\ ui.tasks[e.task].end = 0)
    /\ e.type = "TaskProgress" => (ui.tasks[e.task].start = 1 /\ ui.tasks[e.task].end = 0)
    /\ e.type = "TaskEnd" => (ui.tasks[e.task].start = 1 /\ ui.tasks[e.task].end = 1)

\* C7 witness: in a parallel set TaskProgress of task 2 is sent while task 1,
\* started and with a step behind it, has not ended.
C7_Witness ==
  /\ set.mode = "parallel"
  /\ sent = <<TaskProgressEv(i, 2)>>
  /\ ui.tasks[1].start = 1 /\ ui.tasks[1].end = 0
  /\ tasks[1].pc = "await" /\ tasks[1].nonzero

\* The log of a step is in the order call, return, post-hook emitted, post-hook
\* returned
LogOrdered(L) ==
  /\ Len(L) >= 1 => L[1].e = "call"
  /\ Len(L) >= 2 => L[2].e = "ret"
  /\ Len(L) >= 3 => L[3].e = "emit"
  /\ Len(L) >= 4 => L[4].e = "emit_done"
  /\ Len(L) <= 4

\* The step of this log is over: its bridge has returned and every hook
\* emission of the step has returned
StepComplete(L) ==
  /\ \E j \in 1..Len(L) : L[j].e = "ret"
  /\ \A j \in 1..Len(L) : L[j].e = "emit" => \E h \in (j + 1)..Len(L) : L[h].e = "emit_done"

\* C8: a task takes its next step only when the bridge call and the post-hook
\* of the step before have completed, and within a sequential set a task is
\* started, and calls a bridge, only after TaskEnd of every task before it.
C8_StepAndTaskOrder ==
  /\ [](\A t \in TaskIds : LogOrdered(tasks[t].log))
  /\ []((runPc = "set" /\ set.mode = "sequential")
          => \A t \in 1..set.n :
               (ui.tasks[t].start >= 1 \/ tasks[t].log # <<>> \/ tasks[t].pc # "init")
                 => \A u \in 1..(t - 1) : ui.tasks[u].end = 1)
  /\ [][\A t \in TaskIds :
          (tasks[t].pc = "loop" /\ tasks'[t].pc = "await")
            => (tasks[t].log = <<>> \/ StepComplete(tasks[t].log))]_vars

\* C8 witness: in a sequential set task 2 awaits the bridge of a later step
\* (an earlier step of it exited non-zero) after task 1 has ended.
C8_Witness ==
  /\ set.mode = "sequential"
  /\ runPc = "set"
  /\ tasks[2].pc = "await" /\ tasks[2].nonzero
  /\ ui.tasks[1].end = 1

\* C9: each set's TaskSetEnd is followed by exactly one summary call of the chat
\* bridge, with the name of the task_status model and the prompt carrying the
\* title of that set; a set is opened only after all sets before it were opened
\* and closed and the summary call of the set before it returned Ok.
C9_SummaryAndPlanOrder ==
  /\ \A s \in SetIds : hs[s].calls = ui.sets[s].end /\ hs[s].calls <= 1
  /\ runPc = "summary"
       => /\ chat.model = (IF "task_status" \in DOMAIN cfg.models.overrides
                             THEN cfg.models.overrides["task_status"].name
                             ELSE cfg.models.default.name)
          /\ chat.prompt = SummaryPrompt(PlanTitle(ui.cur))
          /\ hs[i].calls = 1 /\ hs[i].result = None
  /\ \A s \in SetIds :
       ui.sets[s].start >= 1
         => /\ ui.sets[s].start = 1
            /\ \A r \in 1..(s - 1) : OnePair(ui.sets[r]) /\ hs[r].result = "ok"

\* C9 witness: the summary call of the second set is in flight, with the model
\* that overrides task_status.
C9_Witness ==
  /\ runPc = "summary"
  /\ i = 2
  /\ chat.model = "status"
  /\ chat.prompt = SummaryPrompt(PlanTitle(2))

\* C10: between the summary call of a set and TaskSetStart of the next set the
\* runner waits for the user's answer: as long as the answer is not "continue"
\* (none yet, or "cancel") no UI event is sent and no bridge is called.
C10_WaitsForSignal ==
  [][(runPc = "loop" /\ 1 <= i /\ i < nSets /\ signal # "continue")
       => (sent' = <<>> /\ UNCHANGED <<ui, tasks, chat>>)]_vars

C12_DepthGuard ==
  /\ [](0 <= depth /\ depth <= recursion_limit(cfg))
  /\ [][\A c \in CallIds :
          (calls[c].pc = "idle" /\ calls'[c].pc # "idle" /\ depth >= recursion_limit(cfg))
            => /\ calls'[c].pc = "done"
               /\ calls'[c].result.decision = "Continue"
               /\ calls'[c].ran = <<>> /\ calls'[c].n = 0
               /\ depth' = depth]_vars

\* C12 witness: with the counter at recursion_limit a call of emit for an
\* event that enabled rules with Exec actions match has returned Continue
\* without attempting an action.
C12_Witness ==
  \E c \in CallIds :
    /\ calls[c].pc = "done" /\ ~calls[c].admitted
    /\ calls[c].result.decision = "Continue" /\ calls[c].ran = <<>>
    /\ depth = recursion_limit(cfg)
    /\ emit_inner(rules, calls[c].ev).children > 0

\* C13: whenever an Exec action of a matched rule fails (its child exits
\* non-zero or cannot be spawned), emit returns Deny at once if the rule has
\* deny_on_fail; otherwise the failure is swallowed: emit does not return an
\* error and goes on with the next action or rule.
C13_ActionErrorDenyOrSwallow ==
  [][\A c \in CallIds :
       (calls[c].pc = "child" /\ calls'[c] # calls[c]
          /\ rules[calls[c].r].actions[calls[c].a].exit # "success")
         => IF rules[calls[c].r].deny_on_fail
              THEN /\ calls'[c].pc = "done"
                   /\ calls'[c].result.decision = "Deny"
                   /\ calls'[c].ran = Append(calls[c].ran, <<calls[c].r, calls[c].a>>)
              ELSE /\ calls'[c].result.decision # "Err"
                   /\ calls'[c].ran
                        = seek(rules, calls[c].ev, calls[c].r, calls[c].a + 1,
                               Append(calls[c].ran, <<calls[c].r, calls[c].a>>)).ran
                   /\ calls'[c].pc = "done" => calls'[c].result.decision = "Continue"]_vars

\* The rule at position k has had an action attempted in this call
RanRule(call, k) == \E j \in 1..Len(call.ran) : call.ran[j][1] = k

\* The rule at position k made this call return Deny
CausedDeny(call, k) ==
  /\ call.result.decision = "Deny"
  /\ Len(call.ran) > 0 /\ call.ran[Len(call.ran)][1] = k

\* C14: in a call of emit that was let in and has returned, a rule with actions
\* had its actions run exactly if it is enabled, its `when` holds the tag of the
\* event and no rule before it caused a Deny; actions run in the order of the
\* rule list; a rule whose `when` holds no known tag never runs.
C14_RulesRunIffMatched ==
  \A c \in CallIds :
    LET call == calls[c] IN
    /\ (call.pc = "done" /\ call.admitted)
         => \A k \in 1..Len(rules) :
              Len(rules[k].actions) > 0
                => (RanRule(call, k)
                      <=> /\ rules[k].enabled
                          /\ call.ev \in rules[k].when
                          /\ \A j \in 1..(k - 1) : ~CausedDeny(call, j))
    /\ \A p, q \in 1..Len(call.ran) :
         p < q => \/ call.ran[p][1] < call.ran[q][1]
                  \/ (call.ran[p][1] = call.ran[q][1] /\ call.ran[p][2] < call.ran[q][2])
    /\ \A k \in 1..Len(rules) :
         rules[k].when \cap HookEventTags = {} => ~RanRule(call, k)

\* C15: merge is idempotent: merging a Config into a copy of itself yields
\* that Config.
C15_MergeIdempotent == out.of = "self" => out.cfg = lower

\* C15 witness: a Config with a vector, an override map and a threshold set
\* apart from the defaults has been merged into itself.
C15_Witness ==
  /\ out.of = "self"
  /\ lower.hooks.dirs # << >>
  /\ lower.compact.max_files = 50
  /\ out.cfg.hooks.dirs = <<"hooks.d">>

\* C16: after merge(a, b) every setting that b carries a present value for
\* (Some, a non-empty vector, a non-zero threshold, a map entry, a non-empty
\* default model name) has b's value; max_files = 10 over max_files = 50 gives 10.
C16_HigherLayerWins ==
  out.of = "pair"
    => /\ higher.models.default.name # "" => out.cfg.models.default = higher.models.default
       /\ \A k \in DOMAIN higher.models.overrides :
            /\ k \in DOMAIN out.cfg.models.overrides
            /\ out.cfg.models.overrides[k] = higher.models.overrides[k]
       /\ higher.history.persist # << >> => out.cfg.history.persist = higher.history.persist
       /\ higher.hooks.recursion_limit # << >>
            => out.cfg.hooks.recursion_limit = higher.hooks.recursion_limit
       /\ higher.hooks.dirs # << >> => out.cfg.hooks.dirs = higher.hooks.dirs
       /\ higher.compact.auto_min_interval_secs # 0
            => out.cfg.compact.auto_min_interval_secs = higher.compact.auto_min_interval_secs
       /\ higher.compact.max_context_chars # 0
            => out.cfg.compact.max_context_chars = higher.compact.max_context_chars
       /\ higher.compact.max_files # 0 => out.cfg.compact.max_files = higher.compact.max_files
       /\ (lower.compact.max_files = 50 /\ higher.compact.max_files = 10)
            => out.cfg.compact.max_files = 10

\* C16 witness: a workspace patch with max_files = 10 and an override for
\* compact has been merged over a user patch with max_files = 50 and another
\* override for compact.
C16_Witness ==
  /\ out.of = "pair"
  /\ lower.compact.max_files = 50 /\ higher.compact.max_files = 10
  /\ "compact" \in DOMAIN lower.models.overrides
  /\ "compact" \in DOMAIN higher.models.overrides
  /\ lower.models.overrides["compact"] # higher.models.overrides["compact"]
  /\ out.cfg.compact.max_files = 10

\* The settings C17 names: the Option fields and the thresholds of compact
OptionKeys == {"history.persist", "hooks.recursion_limit"}
ThresholdKeys ==
  {"compact.auto_min_interval_secs", "compact.max_files", "compact.max_context_chars"}

\* A file specifies a setting: it parses and names it (null names nothing)
FileSets(file, key) ==
  /\ file.kind = "yaml"
  /\ key \in DOMAIN file.doc
  /\ key \in OptionKeys => file.doc[key] # << >>

\* The paths of all layers, lowest first
LayerPaths ==
  << <<"system_dir", 1>>, <<"system_dir", 2>>, <<"user_dir", 1>>, <<"user_dir", 2>>,
     <<"workspace_dir", 1>>, <<"workspace_dir", 2>> >>

FileAt(p) == files[LayerPaths[p][1]][FileNames[LayerPaths[p][2]]]

\* The value the layers establish for a setting: that of the runtime overlay
\* if a patch has set it, else that of the highest file that specifies it,
\* else the default
Established(key) ==
  IF key \in rtKeys THEN to_yaml(overlay)[key]
  ELSE IF \E p \in 1..Len(LayerPaths) : FileSets(FileAt(p), key)
    THEN LET top == CHOOSE p \in 1..Len(LayerPaths) :
                      /\ FileSets(FileAt(p), key)
                      /\ \A q \in (p + 1)..Len(LayerPaths) : ~FileSets(FileAt(q), key)
         IN FileAt(top).doc[key]
    ELSE to_yaml(DefaultConfig)[key]

\* C17: in the effective config of a reload every Option setting and every
\* threshold of compact has the value of the highest layer that specifies it:
\* layers that leave it out, and an overlay never patched with it, change nothing.
C17_UnspecifiedLeavesLower ==
  ~dirty => \A key \in OptionKeys \cup ThresholdKeys : to_yaml(inner)[key] = Established(key)

\* The model a role is routed to by the layers: the override of the highest
\* layer that has one for the key of the role, else the default model of the
\* highest layer that names one
LayerConfig(p) == IF FileAt(p).kind = "yaml" THEN from_yaml(FileAt(p).doc) ELSE DefaultConfig

RoutedModel(role) ==
  LET key == RoleKey(role)
      has(p) == key \in DOMAIN LayerConfig(p).models.overrides
      named(p) == LayerConfig(p).models.default.name # ""
  IN
  IF key \in DOMAIN overlay.models.overrides THEN overlay.models.overrides[key]
  ELSE IF \E p \in 1..Len(LayerPaths) : has(p)
    THEN LayerConfig(CHOOSE p \in 1..Len(LayerPaths) :
                       has(p) /\ \A q \in (p + 1)..Len(LayerPaths) : ~has(q)).models.overrides[key]
  ELSE IF overlay.models.default.name # "" THEN overlay.models.default
  ELSE IF \E p \in 1..Len(LayerPaths) : named(p)
    THEN LayerConfig(CHOOSE p \in 1..Len(LayerPaths) :
                       named(p) /\ \A q \in (p + 1)..Len(LayerPaths) : ~named(q)).models.default
  ELSE DefaultConfig.models.default

\* C18: pick_model(role) is the override stored under the key of the role when
\* the effective config has one, else models.default; the override of the
\* highest layer wins.
C18_PickModel ==
  ~dirty
    => \A role \in {"Chat", "Title", "SessionName", "Compact", "MetaPrompt", "TaskStatus"} :
         /\ pick_model(inner, role)
              = (IF RoleKey(role) \in DOMAIN inner.models.overrides
                   THEN inner.models.overrides[RoleKey(role)] ELSE inner.models.default)
         /\ pick_model(inner, role) = RoutedModel(role)

\* C18 witness: system names the default model A, user overrides compact with
\* B and workspace with C, the watcher has reloaded after an edit:
\* pick_model(Compact) is C and pick_model(Chat) is A.
C18_Witness ==
  /\ ~dirty /\ last.op = "watch"
  /\ FileAt(1) = Yaml("models.default.name" :> "A")
  /\ FileSets(FileAt(3), "models.overrides")
  /\ FileAt(3).doc["models.overrides"]["compact"].name = "B"
  /\ FileSets(FileAt(5), "models.overrides")
  /\ FileAt(5).doc["models.overrides"]["compact"].name = "C"
  /\ pick_model(inner, "Compact").name = "C"
  /\ pick_model(inner, "Chat").name = "A"

\* C19: write_patch_file with scope Runtime returns an error and changes no
\* file, not the overlay and not the effective config; apply_runtime_overlay
\* changes no file.
C19_RuntimeNeverPersisted ==
  [][/\ (nops' = nops + 1 /\ last'.op = "write_patch_file" /\ last'.scope = "Runtime")
          => (last'.result = "err" /\ UNCHANGED <<files, overlay, inner, dirty>>)
     /\ (nops' = nops + 1 /\ last'.op = "apply_runtime_overlay")
          => files' = files]_vars

\* C19 witness: after a runtime overlay was applied, a patch with scope
\* Runtime has been refused, no 99-runtime.yaml exists in any directory and
\* the overlay shows in the effective config only.
C19_Witness ==
  /\ last = [op |-> "write_patch_file", scope |-> "Runtime", result |-> "err"]
  /\ overlay.history.persist = <<"all">>
  /\ inner.history.persist = <<"all">>
  /\ \A d \in Dirs : files[d][FileNames[2]] = NoFile

\* C20: a reload by the watcher that meets a file it cannot parse leaves the
\* effective snapshot as it was before the reload.
C20_ParseErrorKeepsSnapshot ==
  [][(dirty /\ ~dirty' /\ \E p \in 1..Len(LayerPaths) : FileAt(p).kind = "garbage")
       => inner' = inner]_vars

\* C21: should_autotrigger(last_compact, stage) is true if and only if
\* compact.auto_enable is true, and the stage is not EndOfTask or
\* compact.auto_on_task_end is true, and there is no prior compaction or the
\* time elapsed since it (the clock reading minus last_compact) is at least
\* compact.auto_min_interval_secs.
C21_AutotriggerIff ==
  cres.op = "trigger" =>
    (cres.fire <=>
       /\ compactCfg.auto_enable
       /\ (cres.stage # "EndOfTask" \/ compactCfg.auto_on_task_end)
       /\ (cres.last = << >>
           \/ NowSecs - cres.last[1] >= compactCfg.auto_min_interval_secs))

\* The elements of a sequence
Range(s) == {s[k] : k \in 1..Len(s)}

StatedScore(p) ==
  LET f == workspace[p]
      age_seconds == NowSecs - f.mtime[1]
      rest == IF 1000000 - age_seconds > 0 THEN 1000000 - age_seconds ELSE 0
  IN (IF f.changed THEN 5000 ELSE 0)
     + (IF f.todo \in {"open", "in_progress"} THEN 3000 ELSE 0)
     + (IF f.exec THEN 2000 ELSE 0)
     + (Min(1000000, rest) \div 10)

PathRank(p) == CHOOSE k \in 1..Len(PathOrder) : PathOrder[k] = p

\* p is ranked before q: higher score, or equal score and smaller path
RankedBefore(p, q) ==
  \/ StatedScore(p) > StatedScore(q)
  \/ StatedScore(p) = StatedScore(q) /\ PathRank(p) < PathRank(q)

\* C23: auto_compact returns the candidates ranked by score descending
\* (5000 git-changed, 3000 referenced by an open or in_progress to-do, 2000
\* recent exec, plus floor(min(10^6, max(0, 10^6 - age_seconds)) / 10)),
\* equal scores by ascending path, cut to the top max_files.
C23_RankedByScore ==
  (cres.op = "auto" /\ ~cres.err) =>
    /\ Len(cres.chosen) = Min(compactCfg.max_files, Cardinality(cres.candidates))
    /\ \A j, k \in 1..Len(cres.chosen) :
         j < k => RankedBefore(cres.chosen[j], cres.chosen[k])
    /\ \A p \in cres.candidates \ Range(cres.chosen) :
         \A k \in 1..Len(cres.chosen) : RankedBefore(cres.chosen[k], p)

\* C24: with a.rs git-changed, b.rs referenced by an open to-do, c.rs neither
\* and max_files = 2, auto_compact returns [a.rs, b.rs], whatever the
\* modification times of the three files.
C24_ScenarioS6 ==
  ( /\ cres.op = "auto"
    /\ ~cres.err
    /\ compactCfg.max_files = 2
    /\ \A p \in Paths : workspace[p].cand /\ ~workspace[p].exec
    /\ workspace["a.rs"].changed /\ workspace["a.rs"].todo = None
    /\ ~workspace["b.rs"].changed /\ workspace["b.rs"].todo = "open"
    /\ ~workspace["c.rs"].changed /\ workspace["c.rs"].todo = None )
  => cres.chosen = <<"a.rs", "b.rs">>

\* The step is a call of op on the store of todo.rs (not a step of the clock)
TodoCall(op) == tops' = tops + 1 /\ clock' = clock /\ tres'.op = op

KnownId(id) == \E k \in 1..Len(items) : items[k].id = id

\* C25: set_status(id, status) on an id present in the store changes only
\* that item's status and updated_at, the new updated_at is not earlier than
\* the prior one, and every other field, every other item and the order and
\* number of the items are unchanged.
C25_SetStatusFrame ==
  [][(TodoCall("set_status") /\ KnownId(tres'.id)) =>
       /\ Len(items') = Len(items)
       /\ \A k \in 1..Len(items) :
            IF items[k].id = tres'.id
              THEN /\ items'[k] = [items[k] EXCEPT !.status = items'[k].status,
                                                   !.updated_at = items'[k].updated_at]
                   /\ items'[k].updated_at >= items[k].updated_at
              ELSE items'[k] = items[k]]_vars

\* C26: set_status and remove with an id that is not in the store return an
\* error and leave the store unchanged; the items are in insertion order (ids
\* are handed out in increasing order); an added item starts open with
\* created_at = updated_at; remove with a known id deletes exactly the item
\* with that id.
C26_TodoStoreContract ==
  /\ [](\A j, k \in 1..Len(items) : j < k => items[j].id < items[k].id)
  /\ [][/\ ((TodoCall("set_status") \/ TodoCall("remove")) /\ ~KnownId(tres'.id))
            => (~tres'.ok /\ items' = items)
        /\ TodoCall("add")
            => /\ Len(items') = Len(items) + 1
               /\ SubSeq(items', 1, Len(items)) = items
               /\ items'[Len(items')].id = tres'.id
               /\ items'[Len(items')].status = "open"
               /\ items'[Len(items')].created_at = items'[Len(items')].updated_at
        /\ (TodoCall("remove") /\ KnownId(tres'.id))
            => /\ tres'.ok
               /\ Len(items') = Len(items) - 1
               /\ items' = SelectSeq(items, LAMBDA x : x.id # tres'.id)]_vars

\* C26 witness: a call with an unknown id has returned its error on a store
\* that holds items.
C26_Witness ==
  /\ tres.op \in {"set_status", "remove"}
  /\ ~tres.ok
  /\ Len(items) >= 2

\* C27: after any sequence of add_and_persist calls the task_number values
\* of the items of one (session_id, date) pair are monotonic in insertion
\* order and the ids of all items are pairwise distinct.
C27_TaskNumberMonotonic ==
  /\ \A j, k \in 1..Len(yitems) :
       (j < k /\ yitems[j].session_id = yitems[k].session_id
              /\ yitems[j].date = yitems[k].date)
         => yitems[j].task_number <= yitems[k].task_number
  /\ \A j, k \in 1..Len(yitems) : yitems[j].id = yitems[k].id => j = k

\* Only the first writer has called append
SingleWriter == \A w \in WriterIds \ {1} : writers[w].n = 0

AllIdle == \A w \in WriterIds : writers[w].pc = "idle"

IsPrefix(s, t) == Len(s) <= Len(t) /\ SubSeq(t, 1, Len(s)) = s

\* C28: with a single writer in both mode and no I/O error, after any
\* sequence of append calls the array-form file and the line-delimited file
\* hold the same events in the same order, one entry per append, and each
\* append leaves what was written before unchanged as a prefix.
C28_BothModeAgree ==
  /\ []((writeMode = "both" /\ SingleWriter /\ AllIdle) =>
          /\ Len(jsonFile) = writers[1].n
          /\ jsonFile = [k \in 1..Len(logged) |-> redact_json(logged[k])]
          /\ Lines(jsonlFile) = [k \in 1..Len(jsonFile) |-> <<jsonFile[k]>>])
  /\ [][(writeMode = "both" /\ SingleWriter') =>
          (IsPrefix(jsonFile, jsonFile') /\ IsPrefix(jsonlFile, jsonlFile'))]_vars

\* C28 witness: the single writer has appended twice in both mode.
C28_Witness ==
  /\ writeMode = "both"
  /\ SingleWriter
  /\ AllIdle
  /\ Len(logged) = 2
  /\ logged[1] # logged[2]

\* C29: when two writers append concurrently to one session log, after both
\* calls have returned both events are in the array-form file and in the
\* line-delimited file, each on a line of its own, and no event logged
\* before is lost.
C29_ConcurrentAppends ==
  (writeMode = "both" /\ AllIdle) =>
    /\ Len(jsonFile) = Len(logged)
    /\ \A k \in 1..Len(logged) : \E j \in 1..Len(jsonFile) : jsonFile[j] = redact_json(logged[k])
    /\ Len(Lines(jsonlFile)) = Len(logged)
    /\ \A k \in 1..Len(logged) :
         \E j \in 1..Len(Lines(jsonlFile)) : Lines(jsonlFile)[j] = <<redact_json(logged[k])>>

\* The string is one the redactor has to replace
StatedSensitive(s) ==
  \E pat \in { <<"K", "E", "Y">>, <<"T", "O", "K", "E", "N">>,
               <<"S", "E", "C", "R", "E", "T">>,
               <<"P", "A", "S", "S", "W", "O", "R", "D">> } :
    contains(to_ascii_uppercase(s), pat)

\* w is v with every sensitive string replaced and nothing else changed
RECURSIVE RedactedAs(_, _)
RedactedAs(v, w) ==
  /\ w.t = v.t
  /\ CASE v.t = "string" ->
            /\ w.s = IF StatedSensitive(v.s)
                       THEN <<"[", "R", "E", "D", "A", "C", "T", "E", "D", "]">>
                       ELSE v.s
            /\ w.xs = << >>
       [] v.t \in {"array", "object"} ->
            /\ w.s = v.s
            /\ Len(w.xs) = Len(v.xs)
            /\ \A k \in 1..Len(v.xs) :
                 w.xs[k].k = v.xs[k].k /\ RedactedAs(v.xs[k].x, w.xs[k].x)
       [] OTHER -> w = v

\* C30: the redactor replaces every string value, at any depth inside
\* arrays and objects, whose upper-cased form contains KEY, TOKEN, SECRET or
\* PASSWORD by "[REDACTED]", leaves everything else and the shape unchanged,
\* and applying it twice gives what applying it once gives.
C30_Redactor ==
  \A w \in WriterIds :
    writers[w].pc # "idle" =>
      /\ RedactedAs(writers[w].ev, writers[w].out)
      /\ redact_json(writers[w].out) = writers[w].out

\* C30 witness: an event with a sensitive string inside an object inside an
\* array is being appended, and the redactor has changed it.
C30_Witness ==
  \E w \in WriterIds :
    /\ writers[w].pc # "idle"
    /\ writers[w].out # writers[w].ev
    /\ \E j \in 1..Len(writers[w].ev.xs) :
         LET x == writers[w].ev.xs[j].x
         IN /\ x.t = "array"
            /\ \E k \in 1..Len(x.xs) :
                 /\ x.xs[k].x.t = "object"
                 /\ \E m \in 1..Len(x.xs[k].x.xs) :
                      /\ x.xs[k].x.xs[m].x.t = "string"
                      /\ StatedSensitive(x.xs[k].x.xs[m].x.s)

\* The calls of emit that are past the guard and have not returned
InProgress == {c \in CallIds : calls[c].pc = "child"}

\* C31: the depth counter equals the number of calls of emit that were let in
\* and have not returned, whatever the earlier calls returned (Continue, Deny
\* or an error); with no call in progress it is 0.
C31_DepthReleased ==
  /\ depth = Cardinality(InProgress)
  /\ InProgress = {} => depth = 0

\* C31 witness: a call that was let in has returned an error, another has
\* returned Deny or Continue after awaiting a child, none is in progress and
\* the counter is 0.
C31_Witness ==
  /\ InProgress = {} /\ depth = 0
  /\ \E c, e \in CallIds :
       /\ calls[c].pc = "done" /\ calls[c].admitted /\ calls[c].result.decision = "Err"
       /\ calls[e].pc = "done" /\ calls[e].admitted /\ calls[e].n > 0
       /\ calls[e].result.decision \in {"Deny", "Continue"}

\* C36: a call of emit made by a task of a parallel set (no caller of emit
\* runs inside a hook action: the actions are child processes and the model
\* choice of a Prompt) runs all enabled matching rules, that is, returns what
\* emit_inner returns for its event, however many other tasks have a call of
\* emit in progress on the same registry.
C36_GuardOnlyReentrant ==
  \A c \in CallIds :
    calls[c].pc = "done" => calls[c].result = emit_inner(rules, calls[c].ev)

\* The rules of the rule files of directory d, files in the order of their
\* names from the k-th name on
RECURSIVE StatedDirRules(_, _)
StatedDirRules(d, k) ==
  IF k > Len(EntryNames) THEN << >>
  ELSE (IF EntryNames[k] \in hookFiles[d].entries /\ extension(EntryNames[k]) \in {"yaml", "yml"}
          THEN RuleFile(d, EntryNames[k]) ELSE << >>)
       \o StatedDirRules(d, k + 1)

\* ... of all directories in configuration order, from the k-th on
RECURSIVE StatedRules(_)
StatedRules(k) ==
  IF k > Len(hookDirs) THEN << >>
  ELSE (IF hookFiles[hookDirs[k]].exists THEN StatedDirRules(hookDirs[k], 1) ELSE << >>)
       \o StatedRules(k + 1)

\* C32: the rule list load_from_dirs builds holds the rules of all rule
\* files, directories in configuration order, the files of one directory in
\* the lexicographic order of their names whatever order the filesystem
\* yields them in, the rules of one file in the order of the file.
C32_LoadOrder ==
  ldres.result = "ok" => rules = StatedRules(1)

\* What the hooks emit cloned return for its event, in registration order
Answers == [k \in 1..Len(eres.hooks) |-> on_event(eres.hooks[k], eres.ev)]

\* The first hook that denies or fails, 0 if there is none
FirstStop ==
  IF \E k \in 1..Len(eres.hooks) : Answers[k].decision \in {"Deny", "Err"}
    THEN CHOOSE k \in 1..Len(eres.hooks) :
           /\ Answers[k].decision \in {"Deny", "Err"}
           /\ \A j \in 1..(k - 1) : Answers[j].decision \notin {"Deny", "Err"}
    ELSE 0

\* The remove lists of the answers from the k-th on, one after the other
RECURSIVE RemovesFrom(_)
RemovesFrom(k) ==
  IF k > Len(eres.hooks) THEN << >> ELSE Answers[k].remove \o RemovesFrom(k + 1)

\* m is the union of the set maps of the answers, a later hook winning on an
\* equal key
IsUnionOfSets(m) ==
  /\ DOMAIN m = UNION {DOMAIN Answers[k].set : k \in 1..Len(eres.hooks)}
  /\ \A key \in DOMAIN m :
       \E k \in 1..Len(eres.hooks) :
         /\ key \in DOMAIN Answers[k].set /\ m[key] = Answers[k].set[key]
         /\ \A j \in (k + 1)..Len(eres.hooks) : key \notin DOMAIN Answers[j].set

\* emit has called the hooks 1..n in this order and no other
CalledUpTo(n) == eres.called = [k \in 1..n |-> k]

C34_ProfileReverted ==
  \A k \in 1..Len(rlog) :
    (rlog[k].kind = "bridge" /\ rlog[k].what # "with_agent")
      => rlog[k].profile = rlog[k].agent

\* The pre-events
PreEvents == {"PreToolUse", "PreExec", "PreMcp"}

\* C35: when the emission of the pre-event of a Chat, Exec or McpCall step
\* returns Deny, the bridge of the step is not called and no later step of
\* the task runs: nothing follows the emission in the run.
C35_DenySkipsStep ==
  \A k \in 1..Len(rlog) :
    (rlog[k].kind = "emit" /\ rlog[k].what \in PreEvents /\ rlog[k].out = "Deny")
      => \A j \in (k + 1)..Len(rlog) : rlog[j].kind # "bridge"

\* No reload is in progress and no file event is waiting for the watcher
Settled == ~dirty /\ \A t \in ReloadThreads : reloads[t].pc = "idle"

\* C37: once a reload of the watcher and apply_runtime_overlay, run side by
\* side, have both finished, the snapshot get() returns is the merge of the
\* layer files and the runtime overlay as they are now, and it is the
\* snapshot that was sent last.
C37_ConcurrentReload ==
  Settled => inner = reload_all(files, overlay) /\ bcast = << inner >>

\* C39: when a persistent layer sets shell.approval and no patch laid over at
\* run time has set it, shell.approval of the effective config after a reload
\* is that of the highest layer that sets it.
C39_ApprovalFromLayers ==
  (Settled /\ "shell.approval" \notin rtKeys
     /\ \E p \in 1..Len(LayerPaths) : FileSets(FileAt(p), "shell.approval"))
    => inner.shell.approval = Established("shell.approval")

\* C38: when every config.toml and the patch of the runtime overlay carry
\* compact.auto_enable = false (the autocompact builtin was dispatched with
\* "off", and nothing else was done), the effective config has
\* compact.auto_enable = false and should_autotrigger returns false.
C38_AutocompactOff ==
  (/\ lops = 1 /\ lres.op = "autocompact" /\ lres.arg = "off" /\ lres.result = "ok"
   /\ \A sc \in LayeredScopes :
        /\ lfiles[sc].kind = "yaml"
        /\ "compact.auto_enable" \in DOMAIN lfiles[sc].doc
        /\ lfiles[sc].doc["compact.auto_enable"] = FALSE)
    => /\ ~linner.compact.auto_enable
       /\ \A stage \in Stages : ~should_autotrigger(linner.compact, << >>, stage)

\* C40: for the same models.default and models.overrides the pick_model of
\* layered_config and that of yaml_config return the same target, for every
\* role.
C40_PickModelAgree ==
  lres.op = "pick_model" => lres.target = lres.yaml_target

====
